---- MODULE Spec2Model ----
(***************************************************************************)
(* A model of the IGC scalarization pass, ScalarizeFunction                *)
(* (IGC/Compiler/Optimizer/Scalarizer.cpp).                                *)
(*                                                                         *)
(* The function being rewritten is a layout `body` of instruction ids and  *)
(* a table `insts` of instruction records.  The pass state is the SCM      *)
(* (m_SCM over the pooled entries of m_SCMArrays), the DRL (m_DRL), the    *)
(* used-whole set (m_usedVectors) and the removed set (m_removedInsts).    *)
(* One action is one iteration of one of the loops of runOnFunction: one   *)
(* dispatched instruction, one reassembled value, one resolved DRL entry;  *)
(* the final sweep over m_removedInsts is one action, since its result     *)
(* does not depend on the iteration order of the set.                      *)
(*                                                                         *)
(* Block terminators are not represented: they have neither a vector       *)
(* result nor a vector operand, so dispatching them changes nothing; an    *)
(* insertion "before the terminator" is an insertion at the end of the     *)
(* block's run in `body`.                                                  *)
(***************************************************************************)
EXTENDS Integers, Sequences, FiniteSets, TLC

(***************************************************************************)
(* Bounds of the model.                                                    *)
(***************************************************************************)
\* lanes of the vector type of the verified functions
W == 2
\* instructions of a verified function, before the pass
MaxInsts == 3
\* calls of runOnFunction on the same function by one pass instance
MaxRuns == 2
\* entries of one pooled SCM block (ESTIMATED_INST_NUM of Scalarizer.h,
\* scaled down so that a function fills more than one block)
ESTIMATED_INST_NUM == 2
\* unfoldings of a PHI cycle when two values are compared
PhiDepth == 2

(***************************************************************************)
(* Values (pointers to llvm::Value).  A value is a triple <<kind, n, i>>.  *)
(***************************************************************************)
NULL == <<"null", 0, 0>>
\* function argument n: argument 1 is a <W x T> vector, argument 2 a scalar,
\* argument 3 a pointer to a <W x T> vector
Arg(n) == <<"arg", n, 0>>
\* the result of instruction n of `insts`
Inst(n) == <<"inst", n, 0>>
\* UndefValue of a w-lane vector type (w = 0: of the scalar element type)
Undef(w) == <<"undef", w, 0>>
\* a constant vector of w lanes that is not undef
ConstVec(w) == <<"const", w, 0>>
\* ConstantExpr::getExtractElement(ConstVec(w), i)
ConstElem(w, i) == <<"celem", w, i>>
\* ConstantInt i32 k
ConstInt(k) == <<"cint", k, 0>>
\* lane i of the n-th DRL entry ever made: new LoadInst(dummyPtr)
Dummy(n, i) == <<"dummy", n, i>>

IsInst(v) == v[1] = "inst"
IsDummy(v) == v[1] = "dummy"
\* isa<Constant>
IsConstant(v) == v[1] \in {"undef", "const", "celem", "cint"}
\* isa<UndefValue>
IsUndef(v) == v[1] = "undef"
\* isa<ConstantInt>
IsConstantInt(v) == v[1] = "cint"

(***************************************************************************)
(* Instructions.  op is the opcode, w the lane count of the result type    *)
(* (0: scalar or void), ops the operand list, aux the shuffle mask of a    *)
(* shufflevector, the incoming blocks of a PHI or the arithmetic flags of a *)
(* binary operator or compare (nsw, nuw, exact, fast), blk the basic block.*)
(***************************************************************************)
I(op, w, ops, aux, blk) == [op |-> op, w |-> w, ops |-> ops, aux |-> aux, blk |-> blk]

BinaryOps == {"add", "sub", "mul", "fadd", "fsub", "fmul", "udiv", "sdiv", "fdiv",
              "urem", "srem", "frem", "shl", "lshr", "ashr", "and", "or", "xor"}
CmpOps == {"icmp", "fcmp"}
CastOps == {"trunc", "zext", "sext", "fptoui", "fptosi", "uitofp", "sitofp",
            "fptrunc", "fpext", "ptrtoint", "inttoptr", "bitcast"}

\* lane count of the type of v in the function whose table is t
WidthOf(t, v) ==
  CASE v[1] = "inst" -> t[v[2]].w
    [] v[1] = "arg" -> IF v[2] = 1 THEN W ELSE 0
    [] v[1] \in {"undef", "const"} -> v[2]
    [] OTHER -> 0

(***************************************************************************)
(* The state threaded through one handler is a record s:                   *)
(*   insts, body      the function (table of instructions, layout)         *)
(*   scm              m_SCM: value -> <<block, slot>> of its pooled entry  *)
(*   arrays, loc      m_SCMArrays and m_SCMArrayLocation; the block that   *)
(*                    m_SCMAllocationArray points to is the last one       *)
(*   drl              m_DRL, a sequence of DRL entries                     *)
(*   used             m_usedVectors, in insertion order                    *)
(*   removed          m_removedInsts, a set of instruction ids             *)
(*   dctr             number of DRL entries made so far (names the dummies)*)
(*   freed            the dummies already destroyed by DeleteInstruction   *)
(*   ret, isconst     out-parameters of obtainScalarizedValues             *)
(*   ldst             m_ScalarizingVectorLDSTType                          *)
(***************************************************************************)

\* SCMEntry as left by "new SCMEntry[ESTIMATED_INST_NUM]"
EmptySCMEntry == [scalarValues |-> <<>>, isOriginalVectorRemoved |-> FALSE]
NewSCMArray == [i \in 1..ESTIMATED_INST_NUM |-> EmptySCMEntry]

HasEntry(s, v) == v \in DOMAIN s.scm
Entry(s, v) == s.arrays[s.scm[v][1]][s.scm[v][2]]
\* currEntry && NULL != currEntry->scalarValues[0]
IsResolved(s, v) == HasEntry(s, v) /\ Entry(s, v).scalarValues[1] # NULL

PosOf(s, n) == CHOOSE p \in 1..Len(s.body) : s.body[p] = n
InBody(s, n) == \E p \in 1..Len(s.body) : s.body[p] = n
BlkAt(s, p) == s.insts[s.body[p]].blk
OpAt(s, p) == s.insts[s.body[p]].op

\* position of the terminator of block b: the end of the block's run in body
BlockEndPos(s, b) ==
  LET ps == {p \in 1..Len(s.body) : BlkAt(s, p) <= b}
  IN IF ps = {} THEN 1 ELSE 1 + (CHOOSE p \in ps : \A q \in ps : q <= p)

\* BasicBlock::getFirstNonPHI of block b, as a position of body
FirstNonPHIPos(s, b) ==
  LET ps == {p \in 1..Len(s.body) : BlkAt(s, p) = b /\ OpAt(s, p) # "phi"}
  IN IF ps = {} THEN BlockEndPos(s, b) ELSE CHOOSE p \in ps : \A q \in ps : p <= q

\* the insertion point "++insertLocation" alone, whatever the next instruction is
LocationAfter_NextInst(s, n) == PosOf(s, n) + 1

\* The insertion point "++insertLocation; if it is a PHI, the first non-PHI of
\* the block" after instruction n.
LocationAfter(s, n) ==
  LET p == PosOf(s, n) + 1
      b == s.insts[n].blk
  IN IF p <= Len(s.body) /\ BlkAt(s, p) = b /\ OpAt(s, p) = "phi"
     THEN FirstNonPHIPos(s, b) ELSE p

\* Create the instructions recs, in order, before position pos of body.
\* The new instructions are Inst(Len(s.insts)+1) .. Inst(Len(s.insts)+Len(recs)).
InsertAt(s, recs, pos) ==
  LET n0 == Len(s.insts)
      ids == [i \in 1..Len(recs) |-> n0 + i]
  IN [s EXCEPT !.insts = s.insts \o recs,
               !.body = SubSeq(s.body, 1, pos - 1) \o ids \o SubSeq(s.body, pos, Len(s.body))]

NewIds(s, k) == [i \in 1..k |-> Inst(Len(s.insts) + i)]

\* Value::replaceAllUsesWith: every operand of every instruction; the raw
\* pointers kept in SCM entries, DRL entries and m_usedVectors are not uses.
ReplaceAllUsesWith(s, old, new) ==
  [s EXCEPT !.insts = [n \in 1..Len(s.insts) |->
      [s.insts[n] EXCEPT !.ops = [k \in 1..Len(s.insts[n].ops) |->
          IF s.insts[n].ops[k] = old THEN new ELSE s.insts[n].ops[k]]]]]

\* getSCMEntry without "newEntry->isOriginalVectorRemoved = false": the pooled
\* entry keeps the flag it was left with
getSCMEntry_KeepFlag(s, v) ==
  IF HasEntry(s, v) THEN s
  ELSE LET full == s.loc = ESTIMATED_INST_NUM
           arrays1 == IF full THEN Append(s.arrays, NewSCMArray) ELSE s.arrays
           loc1 == IF full THEN 0 ELSE s.loc
           a == Len(arrays1)
           old == arrays1[a][loc1 + 1]
           sv == IF Len(old.scalarValues) > 0
                 THEN [old.scalarValues EXCEPT ![1] = NULL] ELSE <<NULL>>
       IN [s EXCEPT !.arrays = [arrays1 EXCEPT ![a][loc1 + 1] =
                                  [scalarValues |-> sv,
                                   isOriginalVectorRemoved |-> old.isOriginalVectorRemoved]],
                    !.loc = loc1 + 1,
                    !.scm = (v :> <<a, loc1 + 1>>) @@ s.scm]

\* getSCMEntry starting again at the first slot of the current block when the
\* block is full, instead of allocating a new block
getSCMEntry_NoNewArray(s, v) ==
  IF HasEntry(s, v) THEN s
  ELSE LET loc1 == IF s.loc = ESTIMATED_INST_NUM THEN 0 ELSE s.loc
           a == Len(s.arrays)
           old == s.arrays[a][loc1 + 1]
           sv == IF Len(old.scalarValues) > 0
                 THEN [old.scalarValues EXCEPT ![1] = NULL] ELSE <<NULL>>
       IN [s EXCEPT !.arrays[a][loc1 + 1] =
                      [scalarValues |-> sv, isOriginalVectorRemoved |-> FALSE],
                    !.loc = loc1 + 1,
                    !.scm = (v :> <<a, loc1 + 1>>) @@ s.scm]

\* getSCMEntry: the entry of v, taken from the pool when v has none
getSCMEntry(s, v) ==
  IF HasEntry(s, v) THEN s
  ELSE LET full == s.loc = ESTIMATED_INST_NUM
           arrays1 == IF full THEN Append(s.arrays, NewSCMArray) ELSE s.arrays
           loc1 == IF full THEN 0 ELSE s.loc
           a == Len(arrays1)
           old == arrays1[a][loc1 + 1]
           sv == IF Len(old.scalarValues) > 0
                 THEN [old.scalarValues EXCEPT ![1] = NULL] ELSE <<NULL>>
       IN [s EXCEPT !.arrays = [arrays1 EXCEPT ![a][loc1 + 1] =
                                  [scalarValues |-> sv, isOriginalVectorRemoved |-> FALSE]],
                    !.loc = loc1 + 1,
                    !.scm = (v :> <<a, loc1 + 1>>) @@ s.scm]

\* updateSCMEntryWithValues without "entry->scalarValues.resize(width)": the
\* entry keeps the size it had
updateSCMEntryWithValues_NoResize(s, v, vals, isOrigValueRemoved) ==
  LET p == s.scm[v]
      sv == s.arrays[p[1]][p[2]].scalarValues
  IN [s EXCEPT !.arrays[p[1]][p[2]] =
        [scalarValues |-> [i \in 1..Len(sv) |-> IF i <= Len(vals) THEN vals[i] ELSE sv[i]],
         isOriginalVectorRemoved |-> isOrigValueRemoved]]

\* updateSCMEntryWithValues on the entry of v, with the width of v's type
updateSCMEntryWithValues(s, v, vals, isOrigValueRemoved) ==
  LET width == WidthOf(s.insts, v)
      p == s.scm[v]
  IN [s EXCEPT !.arrays[p[1]][p[2]] =
        [scalarValues |-> [i \in 1..width |-> IF i <= Len(vals) THEN vals[i] ELSE NULL],
         isOriginalVectorRemoved |-> isOrigValueRemoved]]

\* the lanes read out of the entry of v by a loop "for i < width"
EntryLanes(s, v, width) ==
  LET sv == Entry(s, v).scalarValues
  IN [i \in 1..width |-> IF i <= Len(sv) THEN sv[i] ELSE NULL]

\* obtainScalarizedValues giving placeholders to every unresolved instruction,
\* whether it has an SCM entry or not
obtainScalarizedValues_NoEntryTest(s, origValue) ==
  LET width == WidthOf(s.insts, origValue)
      s0 == [s EXCEPT !.isconst = IsConstant(origValue)]
  IN CASE IsResolved(s, origValue) ->
            [s0 EXCEPT !.ret = EntryLanes(s, origValue, width)]
       [] ~IsResolved(s, origValue) /\ IsUndef(origValue) ->
            [s0 EXCEPT !.ret = [i \in 1..width |-> Undef(0)]]
       [] ~IsResolved(s, origValue) /\ ~IsUndef(origValue) /\ IsConstant(origValue) ->
            [s0 EXCEPT !.ret = [i \in 1..width |-> ConstElem(width, i - 1)]]
       [] ~IsResolved(s, origValue) /\ ~IsConstant(origValue) /\ IsInst(origValue) ->
            LET dummyVals == [i \in 1..width |-> Dummy(s.dctr + 1, i - 1)]
            IN [s0 EXCEPT !.ret = dummyVals,
                          !.dctr = s.dctr + 1,
                          !.drl = Append(s.drl, [unresolvedInst |-> origValue,
                                                 dummyVals |-> dummyVals])]
       [] OTHER ->
            LET recs == [i \in 1..width |->
                           I("extractelement", 0, <<origValue, ConstInt(i - 1)>>, <<>>, 0)]
                lanes == NewIds(s, width)
                s1 == InsertAt(s0, recs, 1)
                s2 == getSCMEntry(s1, origValue)
            IN [updateSCMEntryWithValues(s2, origValue, lanes, FALSE) EXCEPT !.ret = lanes]

obtainScalarizedValues(s, origValue) ==
  LET width == WidthOf(s.insts, origValue)
      s0 == [s EXCEPT !.isconst = IsConstant(origValue)]
  IN CASE IsResolved(s, origValue) ->
            [s0 EXCEPT !.ret = EntryLanes(s, origValue, width)]
       [] ~IsResolved(s, origValue) /\ IsUndef(origValue) ->
            [s0 EXCEPT !.ret = [i \in 1..width |-> Undef(0)]]
       [] ~IsResolved(s, origValue) /\ ~IsUndef(origValue) /\ IsConstant(origValue) ->
            [s0 EXCEPT !.ret = [i \in 1..width |-> ConstElem(width, i - 1)]]
       [] ~IsResolved(s, origValue) /\ ~IsConstant(origValue)
          /\ IsInst(origValue) /\ ~HasEntry(s, origValue) ->
            LET dummyVals == [i \in 1..width |-> Dummy(s.dctr + 1, i - 1)]
            IN [s0 EXCEPT !.ret = dummyVals,
                          !.dctr = s.dctr + 1,
                          !.drl = Append(s.drl, [unresolvedInst |-> origValue,
                                                 dummyVals |-> dummyVals])]
       [] OTHER ->
            LET isI == IsInst(origValue)
                pos == IF isI THEN LocationAfter(s, origValue[2]) ELSE 1
                blk == IF isI THEN s.insts[origValue[2]].blk ELSE 0
                recs == [i \in 1..width |->
                           I("extractelement", 0, <<origValue, ConstInt(i - 1)>>, <<>>, blk)]
                lanes == NewIds(s, width)
                s1 == InsertAt(s0, recs, pos)
                s2 == getSCMEntry(s1, origValue)
            IN [updateSCMEntryWithValues(s2, origValue, lanes, FALSE) EXCEPT !.ret = lanes]

\* m_usedVectors as a plain vector: push_back whether the value is there or not
obtainVectorValueWhichMightBeScalarized_PushBack(s, vectorVal) ==
  [s EXCEPT !.used = Append(s.used, vectorVal)]

\* m_usedVectors.insert on a SmallSetVector
obtainVectorValueWhichMightBeScalarized(s, vectorVal) ==
  IF \E k \in 1..Len(s.used) : s.used[k] = vectorVal THEN s
  ELSE [s EXCEPT !.used = Append(s.used, vectorVal)]

RECURSIVE recoverOperands(_, _, _)
recoverOperands(s, ops, k) ==
  IF k > Len(ops) THEN s
  ELSE recoverOperands(
         IF WidthOf(s.insts, ops[k]) > 0
         THEN obtainVectorValueWhichMightBeScalarized(s, ops[k]) ELSE s,
         ops, k + 1)

\* recoverNonScalarizableInst without "getSCMEntry(Inst)"
recoverNonScalarizableInst_NoEntry(s, n) ==
  recoverOperands(s, s.insts[n].ops, 1)

\* The operand list of a call holds its arguments only, so the two loops of
\* recoverNonScalarizableInst are the same loop here.
recoverNonScalarizableInst(s, n) ==
  LET s1 == IF s.insts[n].w > 0 THEN getSCMEntry(s, Inst(n)) ELSE s
  IN recoverOperands(s1, s.insts[n].ops, 1)

\* the common end of the decomposition rules, erasing the original at once
\* instead of putting it in m_removedInsts
ReplaceByLanes_EraseNow(s, n, recs) ==
  LET lanes == NewIds(s, Len(recs))
      s1 == InsertAt(s, recs, PosOf(s, n))
      s2 == updateSCMEntryWithValues(s1, Inst(n), lanes, TRUE)
  IN [s2 EXCEPT !.body = SelectSeq(s2.body, LAMBDA m : m # n)]

\* the common end of the decomposition rules that create one instruction per lane
\* before the original: create recs before n, fill the entry of n, mark n removed
ReplaceByLanes(s, n, recs) ==
  LET lanes == NewIds(s, Len(recs))
      s1 == InsertAt(s, recs, PosOf(s, n))
      s2 == updateSCMEntryWithValues(s1, Inst(n), lanes, TRUE)
  IN [s2 EXCEPT !.removed = s.removed \cup {n}]

\* scalarizeInstruction(BinaryOperator *) without "if (op0IsConst && op1IsConst) return"
scalarizeBinaryOrCmp_NoShortCircuit(s, n) ==
  LET BI == s.insts[n]
      s1 == getSCMEntry(s, Inst(n))
      s2 == obtainScalarizedValues(s1, BI.ops[1])
      s3 == obtainScalarizedValues(s2, BI.ops[2])
  IN IF BI.w = 0 THEN s
     ELSE ReplaceByLanes(s3, n,
            [dup \in 1..BI.w |->
               I(BI.op, 0, <<s2.ret[dup], s3.ret[dup]>>, BI.aux, BI.blk)])

\* scalarizeInstruction(BinaryOperator *) and scalarizeInstruction(CmpInst *).
\* The lanes of a binary operator are given its flags; the lanes of a compare
\* are made by CmpInst::Create from the opcode and the predicate, and nothing
\* is set on them afterwards.
scalarizeBinaryOrCmp(s, n) ==
  LET BI == s.insts[n]
      numElements == BI.w
      flags == IF BI.op \in BinaryOps THEN BI.aux ELSE <<>>
      s1 == getSCMEntry(s, Inst(n))
      s2 == obtainScalarizedValues(s1, BI.ops[1])
      s3 == obtainScalarizedValues(s2, BI.ops[2])
  IN IF numElements = 0 THEN s
     ELSE IF s2.isconst /\ s3.isconst THEN s3
     ELSE ReplaceByLanes(s3, n,
            [dup \in 1..numElements |->
               I(BI.op, 0, <<s2.ret[dup], s3.ret[dup]>>, flags, BI.blk)])

\* scalarizeInstruction(CastInst *) handing every bitcast to
\* recoverNonScalarizableInst, whatever its types
scalarizeCast_BitCastRecovered(s, n) ==
  LET CI == s.insts[n]
      s1 == getSCMEntry(s, Inst(n))
      s2 == obtainScalarizedValues(s1, CI.ops[1])
  IN IF CI.op = "bitcast" THEN recoverNonScalarizableInst(s, n)
     ELSE IF CI.w = 0 THEN s
     ELSE IF s2.isconst THEN s2
     ELSE ReplaceByLanes(s2, n,
            [dup \in 1..CI.w |-> I(CI.op, 0, <<s2.ret[dup]>>, <<>>, CI.blk)])

\* scalarizeInstruction(CastInst *)
scalarizeCast(s, n) ==
  LET CI == s.insts[n]
      srcW == WidthOf(s.insts, CI.ops[1])
      s1 == getSCMEntry(s, Inst(n))
      s2 == obtainScalarizedValues(s1, CI.ops[1])
  IN IF CI.op = "bitcast" /\ (CI.w = 0 \/ srcW = 0 \/ CI.w # srcW)
     THEN recoverNonScalarizableInst(s, n)
     ELSE IF CI.w = 0 THEN s
     ELSE IF s2.isconst THEN s2
     ELSE ReplaceByLanes(s2, n,
            [dup \in 1..CI.w |-> I(CI.op, 0, <<s2.ret[dup]>>, <<>>, CI.blk)])

\* a call of one of GenISA_vmeSendIME2, GenISA_vmeSendFBR2, GenISA_vmeSendSIC2:
\* a call whose aux is <<1>>
IsVMESend(s, v) ==
  IsInst(v) /\ s.insts[v[2]].op = "call" /\ s.insts[v[2]].aux = <<1>>

\* the loop "for j < numValues" of scalarizeInstruction(PHINode *): the lane
\* PHIs are newPHI, the next incoming value to add is j
RECURSIVE fillScalarPHIs(_, _, _, _)
fillScalarPHIs(s, n, newPHI, j) ==
  IF j > Len(s.insts[n].ops) THEN s
  ELSE LET s1 == obtainScalarizedValues(s, s.insts[n].ops[j])
           s2 == [s1 EXCEPT !.insts = [m \in 1..Len(s1.insts) |->
                     IF \E i \in 1..Len(newPHI) : newPHI[i] = Inst(m)
                     THEN [s1.insts[m] EXCEPT !.ops = Append(s1.insts[m].ops,
                             s1.ret[CHOOSE i \in 1..Len(newPHI) : newPHI[i] = Inst(m)])]
                     ELSE s1.insts[m]]]
       IN fillScalarPHIs(s2, n, newPHI, j + 1)

\* scalarizeInstruction(PHINode *) without the loop that looks for a VME send
\* among the incoming values
scalarizePHI_NoVMECheck(s, n) ==
  LET PI == s.insts[n]
      s1 == getSCMEntry(s, Inst(n))
      newScalarizedPHI == NewIds(s1, PI.w)
      s2 == InsertAt(s1, [i \in 1..PI.w |-> I("phi", 0, <<>>, PI.aux, PI.blk)], PosOf(s1, n))
      s3 == fillScalarPHIs(s2, n, newScalarizedPHI, 1)
      s4 == updateSCMEntryWithValues(s3, Inst(n), newScalarizedPHI, TRUE)
  IN IF PI.w = 0 THEN s
     ELSE [s4 EXCEPT !.removed = s.removed \cup {n}]

\* scalarizeInstruction(PHINode *)
scalarizePHI(s, n) ==
  LET PI == s.insts[n]
      s1 == getSCMEntry(s, Inst(n))
      newScalarizedPHI == NewIds(s1, PI.w)
      s2 == InsertAt(s1, [i \in 1..PI.w |-> I("phi", 0, <<>>, PI.aux, PI.blk)], PosOf(s1, n))
      s3 == fillScalarPHIs(s2, n, newScalarizedPHI, 1)
      s4 == updateSCMEntryWithValues(s3, Inst(n), newScalarizedPHI, TRUE)
  IN IF PI.w = 0 THEN s
     ELSE IF \E j \in 1..Len(PI.ops) : IsVMESend(s, PI.ops[j])
     THEN recoverNonScalarizableInst(s, n)
     ELSE [s4 EXCEPT !.removed = s.removed \cup {n}]

\* scalarizeInstruction(ExtractElementInst *) replacing the uses by lane 0
\* whatever the index
scalarizeExtractElement_Lane0(s, n) ==
  LET EI == s.insts[n]
      s1 == obtainScalarizedValues(s, EI.ops[1])
      s2 == ReplaceAllUsesWith(s1, Inst(n), s1.ret[1])
  IN IF ~IsConstantInt(EI.ops[2]) THEN recoverNonScalarizableInst(s, n)
     ELSE [s2 EXCEPT !.removed = s.removed \cup {n}]

\* scalarizeInstruction(ExtractElementInst *)
scalarizeExtractElement(s, n) ==
  LET EI == s.insts[n]
      vectorValue == EI.ops[1]
      scalarIndexVal == EI.ops[2]
      s1 == obtainScalarizedValues(s, vectorValue)
      s2 == ReplaceAllUsesWith(s1, Inst(n), s1.ret[scalarIndexVal[2] + 1])
  IN IF ~IsConstantInt(scalarIndexVal) THEN recoverNonScalarizableInst(s, n)
     ELSE [s2 EXCEPT !.removed = s.removed \cup {n}]

\* scalarizeInstruction(InsertElementInst *) without "scalarValues[scalarIndex] =
\* sourceScalarValue"
scalarizeInsertElement_NoOverwrite(s, n) ==
  LET II == s.insts[n]
      s1 == getSCMEntry(s, Inst(n))
      s2 == IF IsUndef(II.ops[1])
            THEN [s1 EXCEPT !.ret = [j \in 1..WidthOf(s.insts, II.ops[1]) |-> Undef(0)]]
            ELSE obtainScalarizedValues(s1, II.ops[1])
      s3 == updateSCMEntryWithValues(s2, Inst(n), s2.ret, TRUE)
  IN IF ~IsConstantInt(II.ops[3]) THEN recoverNonScalarizableInst(s, n)
     ELSE [s3 EXCEPT !.removed = s.removed \cup {n}]

\* scalarizeInstruction(InsertElementInst *)
scalarizeInsertElement(s, n) ==
  LET II == s.insts[n]
      sourceVectorValue == II.ops[1]
      sourceScalarValue == II.ops[2]
      scalarIndexVal == II.ops[3]
      s1 == getSCMEntry(s, Inst(n))
      s2 == IF IsUndef(sourceVectorValue)
            THEN [s1 EXCEPT !.ret = [j \in 1..WidthOf(s.insts, sourceVectorValue) |-> Undef(0)]]
            ELSE obtainScalarizedValues(s1, sourceVectorValue)
      scalarValues == [s2.ret EXCEPT ![scalarIndexVal[2] + 1] = sourceScalarValue]
      s3 == updateSCMEntryWithValues(s2, Inst(n), scalarValues, TRUE)
  IN IF ~IsConstantInt(scalarIndexVal) THEN recoverNonScalarizableInst(s, n)
     ELSE [s3 EXCEPT !.removed = s.removed \cup {n}]

\* scalarizeInstruction(ShuffleVectorInst *) concatenating the two inputs in
\* the wrong order
scalarizeShuffleVector_Swapped(s, n) ==
  LET SI == s.insts[n]
      nulls == [i \in 1..WidthOf(s.insts, SI.ops[1]) |-> NULL]
      s1 == IF IsUndef(SI.ops[1]) THEN [s EXCEPT !.ret = nulls]
            ELSE obtainScalarizedValues(s, SI.ops[1])
      s2 == IF IsUndef(SI.ops[2]) THEN [s1 EXCEPT !.ret = nulls]
            ELSE obtainScalarizedValues(s1, SI.ops[2])
      allValues == s2.ret \o s1.ret
      newVector == [i \in 1..SI.w |->
                      IF SI.aux[i] >= 0 /\ allValues[SI.aux[i] + 1] # NULL
                      THEN allValues[SI.aux[i] + 1] ELSE Undef(0)]
      s3 == getSCMEntry(s2, Inst(n))
      s4 == updateSCMEntryWithValues(s3, Inst(n), newVector, TRUE)
  IN [s4 EXCEPT !.removed = s.removed \cup {n}]

\* scalarizeInstruction(ShuffleVectorInst *); aux is the mask, -1 an undef element
scalarizeShuffleVector(s, n) ==
  LET SI == s.insts[n]
      sourceVectorWidth == WidthOf(s.insts, SI.ops[1])
      nulls == [i \in 1..sourceVectorWidth |-> NULL]
      s1 == IF IsUndef(SI.ops[1]) THEN [s EXCEPT !.ret = nulls]
            ELSE obtainScalarizedValues(s, SI.ops[1])
      s2 == IF IsUndef(SI.ops[2]) THEN [s1 EXCEPT !.ret = nulls]
            ELSE obtainScalarizedValues(s1, SI.ops[2])
      allValues == s1.ret \o s2.ret
      newVector == [i \in 1..SI.w |->
                      IF SI.aux[i] >= 0 /\ allValues[SI.aux[i] + 1] # NULL
                      THEN allValues[SI.aux[i] + 1] ELSE Undef(0)]
      s3 == getSCMEntry(s2, Inst(n))
      s4 == updateSCMEntryWithValues(s3, Inst(n), newVector, TRUE)
  IN [s4 EXCEPT !.removed = s.removed \cup {n}]

\* scalarizeInstruction(SelectInst *) without the test "trueValOp[dup] !=
\* falseValOp[dup]": one select for every lane
scalarizeSelect_EveryLane(s, n) ==
  LET SI == s.insts[n]
      s1 == getSCMEntry(s, Inst(n))
      s2 == obtainScalarizedValues(s1, SI.ops[2])
      s3 == obtainScalarizedValues(s2, SI.ops[3])
      s4 == IF WidthOf(s.insts, SI.ops[1]) > 0
            THEN obtainScalarizedValues(s3, SI.ops[1])
            ELSE [s3 EXCEPT !.ret = [i \in 1..SI.w |-> SI.ops[1]]]
  IN IF SI.w = 0 THEN s
     ELSE ReplaceByLanes(s4, n,
            [dup \in 1..SI.w |->
               I("select", 0, <<s4.ret[dup], s2.ret[dup], s3.ret[dup]>>, SI.aux, SI.blk)])

\* The loop "for dup < numElements" of scalarizeInstruction(SelectInst *) and
\* its end: a select before the original for every lane whose true and false
\* values differ, the true value for the others
createScalarSelects(s, n, condOp, trueValOp, falseValOp) ==
  LET SI == s.insts[n]
      differ == {dup \in 1..SI.w : trueValOp[dup] # falseValOp[dup]}
      rank == [i \in 1..SI.w |-> Cardinality({j \in differ : j <= i})]
      order == [k \in 1..Cardinality(differ) |-> CHOOSE i \in differ : rank[i] = k]
      recs == [k \in 1..Len(order) |->
                 I("select", 0, <<condOp[order[k]], trueValOp[order[k]], falseValOp[order[k]]>>,
                   SI.aux, SI.blk)]
      newScalarizedInsts == [dup \in 1..SI.w |->
                               IF dup \in differ THEN Inst(Len(s.insts) + rank[dup])
                               ELSE trueValOp[dup]]
      s5 == InsertAt(s, recs, PosOf(s, n))
      s6 == updateSCMEntryWithValues(s5, Inst(n), newScalarizedInsts, TRUE)
  IN [s6 EXCEPT !.removed = s.removed \cup {n}]

\* scalarizeInstruction(SelectInst *); the operands are condition, true value,
\* false value
scalarizeSelect(s, n) ==
  LET SI == s.insts[n]
      conditionVal == SI.ops[1]
      s1 == getSCMEntry(s, Inst(n))
      s2 == obtainScalarizedValues(s1, SI.ops[2])
      s3 == obtainScalarizedValues(s2, SI.ops[3])
      s4 == obtainScalarizedValues(s3, conditionVal)
  IN IF SI.w = 0 THEN s
     ELSE IF WidthOf(s.insts, conditionVal) > 0
     THEN createScalarSelects(s4, n, s4.ret, s2.ret, s3.ret)
     ELSE createScalarSelects(s3, n, [i \in 1..SI.w |-> conditionVal], s2.ret, s3.ret)

\* scalarizeInstruction(AllocaInst *)
scalarizeAlloca(s, n) == recoverNonScalarizableInst(s, n)

\* scalarizeInstruction(GetElementPtrInst *) leaving the getelementptr alone,
\* without handing it to recoverNonScalarizableInst
scalarizeGetElementPtr_Ignored(s, n) == s

\* scalarizeInstruction(GetElementPtrInst *) putting the getelementptr in
\* m_removedInsts after the recovery
scalarizeGetElementPtr_Removed(s, n) ==
  [recoverNonScalarizableInst(s, n) EXCEPT !.removed = s.removed \cup {n}]

\* scalarizeInstruction(GetElementPtrInst *)
scalarizeGetElementPtr(s, n) == recoverNonScalarizableInst(s, n)

\* isScalarizableLoadStoreType(dataType) && m_pDL, for a data type of w lanes
\* (w = 0: not a vector); m_pDL is the address of the module's data layout
isScalarizableLoadStoreType(s, w) == s.ldst /\ w > 0

\* The instructions created before a load or store of w lanes through ptr: the
\* pointer cast "ptrVec2ptrScl", then for every lane "GEP_lane" and the scalar
\* access access[i] of it.  The first of them is instruction n0 + 1, the
\* address of lane i instruction n0 + 2 * i and its access n0 + 2 * i + 1.
LaneAccesses(ptr, w, n0, access, blk) ==
  [j \in 1..(2 * w + 1) |->
     IF j = 1 THEN I("bitcast", 0, <<ptr>>, <<>>, blk)
     ELSE IF j % 2 = 0
     THEN I("getelementptr", 0, <<Inst(n0 + 1), ConstInt((j \div 2) - 1)>>, <<>>, blk)
     ELSE access[j \div 2]]

\* scalarizeInstruction(LoadInst *)
scalarizeLoad(s, n) ==
  LET LI == s.insts[n]
      numDupElements == LI.w
      s1 == getSCMEntry(s, Inst(n))
      n0 == Len(s1.insts)
      loads == [dup \in 1..numDupElements |->
                  I("load", 0, <<Inst(n0 + 2 * dup)>>, <<>>, LI.blk)]
      newScalarizedInsts == [dup \in 1..numDupElements |-> Inst(n0 + 2 * dup + 1)]
      s2 == InsertAt(s1, LaneAccesses(LI.ops[1], numDupElements, n0, loads, LI.blk),
                     PosOf(s1, n))
      s3 == updateSCMEntryWithValues(s2, Inst(n), newScalarizedInsts, TRUE)
  IN IF isScalarizableLoadStoreType(s, LI.w)
     THEN [s3 EXCEPT !.removed = s.removed \cup {n}]
     ELSE recoverNonScalarizableInst(s, n)

\* scalarizeInstruction(StoreInst *) emitting the lanes of the data in
\* decreasing order of index
scalarizeStore_Reversed(s, n) ==
  LET SI == s.insts[n]
      numDupElements == WidthOf(s.insts, SI.ops[1])
      s1 == obtainScalarizedValues(s, SI.ops[1])
      n0 == Len(s1.insts)
      stores == [dup \in 1..numDupElements |->
                   I("store", 0, <<s1.ret[numDupElements + 1 - dup], Inst(n0 + 2 * dup)>>,
                     <<>>, SI.blk)]
      s2 == InsertAt(s1, LaneAccesses(SI.ops[2], numDupElements, n0, stores, SI.blk),
                     PosOf(s1, n))
  IN IF isScalarizableLoadStoreType(s, numDupElements)
     THEN [s2 EXCEPT !.removed = s.removed \cup {n}]
     ELSE recoverNonScalarizableInst(s, n)

\* scalarizeInstruction(StoreInst *); the operands are the data and the pointer
scalarizeStore(s, n) ==
  LET SI == s.insts[n]
      numDupElements == WidthOf(s.insts, SI.ops[1])
      s1 == obtainScalarizedValues(s, SI.ops[1])
      n0 == Len(s1.insts)
      stores == [dup \in 1..numDupElements |->
                   I("store", 0, <<s1.ret[dup], Inst(n0 + 2 * dup)>>, <<>>, SI.blk)]
      s2 == InsertAt(s1, LaneAccesses(SI.ops[2], numDupElements, n0, stores, SI.blk),
                     PosOf(s1, n))
  IN IF isScalarizableLoadStoreType(s, numDupElements)
     THEN [s2 EXCEPT !.removed = s.removed \cup {n}]
     ELSE recoverNonScalarizableInst(s, n)

\* dispatchInstructionToScalarize.  The case of a call is commented out in the
\* source, so a call takes the default branch of the switch, as every opcode
\* that has no case (here fneg).
dispatchInstructionToScalarize(s, n) ==
  LET op == s.insts[n].op
  IN IF n \in s.removed THEN s
     ELSE CASE op \in BinaryOps \cup CmpOps -> scalarizeBinaryOrCmp(s, n)
            [] op \in CastOps -> scalarizeCast(s, n)
            [] op = "phi" -> scalarizePHI(s, n)
            [] op = "select" -> scalarizeSelect(s, n)
            [] op = "alloca" -> scalarizeAlloca(s, n)
            [] op = "getelementptr" -> scalarizeGetElementPtr(s, n)
            [] op = "load" -> scalarizeLoad(s, n)
            [] op = "store" -> scalarizeStore(s, n)
            [] op = "extractelement" -> scalarizeExtractElement(s, n)
            [] op = "insertelement" -> scalarizeInsertElement(s, n)
            [] op = "shufflevector" -> scalarizeShuffleVector(s, n)
            [] OTHER -> recoverNonScalarizableInst(s, n)

\* the chain of insertelements with the lanes placed in decreasing order of index
AssemblyChain_Reversed(lanes, n0, blk) ==
  [i \in 1..Len(lanes) |->
     I("insertelement", Len(lanes),
       <<IF i = 1 THEN Undef(Len(lanes)) ELSE Inst(n0 + i - 1),
         lanes[Len(lanes) + 1 - i], ConstInt(Len(lanes) - i)>>,
       <<>>, blk)]

\* the chain of insertelements built by obtainVectorValueWhichMightBeScalarizedImpl
\* from the lanes `lanes`, the first of them being instruction n0 + 1
AssemblyChain(lanes, n0, blk) ==
  [i \in 1..Len(lanes) |->
     I("insertelement", Len(lanes),
       <<IF i = 1 THEN Undef(Len(lanes)) ELSE Inst(n0 + i - 1), lanes[i], ConstInt(i - 1)>>,
       <<>>, blk)]

\* obtainVectorValueWhichMightBeScalarizedImpl rebuilding every value whose
\* entry is resolved, whether the entry is marked removed or not
obtainVectorValueWhichMightBeScalarizedImpl_AnyResolved(s, vectorVal) ==
  IF IsUndef(vectorVal) \/ ~IsResolved(s, vectorVal)
  THEN s
  ELSE LET isI == IsInst(vectorVal)
           width == WidthOf(s.insts, vectorVal)
           lanes == EntryLanes(s, vectorVal, width)
           blk == IF isI THEN s.insts[vectorVal[2]].blk ELSE 0
           pos == IF ~isI THEN 1
                  ELSE IF s.insts[vectorVal[2]].op = "phi" THEN FirstNonPHIPos(s, blk)
                  ELSE PosOf(s, vectorVal[2])
           assembledVector == Inst(Len(s.insts) + width)
           s1 == InsertAt(s, AssemblyChain(lanes, Len(s.insts), blk), pos)
           s2 == ReplaceAllUsesWith(s1, vectorVal, assembledVector)
           s3 == getSCMEntry(s2, assembledVector)
       IN updateSCMEntryWithValues(s3, assembledVector, lanes, FALSE)

\* obtainVectorValueWhichMightBeScalarizedImpl, called by resolveVectorValues
\* for every value of m_usedVectors
obtainVectorValueWhichMightBeScalarizedImpl(s, vectorVal) ==
  IF IsUndef(vectorVal) \/ ~HasEntry(s, vectorVal)
     \/ ~Entry(s, vectorVal).isOriginalVectorRemoved
  THEN s
  ELSE LET n == vectorVal[2]
           width == WidthOf(s.insts, vectorVal)
           lanes == EntryLanes(s, vectorVal, width)
           pos == IF s.insts[n].op = "phi" THEN FirstNonPHIPos(s, s.insts[n].blk)
                  ELSE PosOf(s, n)
           assembledVector == Inst(Len(s.insts) + width)
           s1 == InsertAt(s, AssemblyChain(lanes, Len(s.insts), s.insts[n].blk), pos)
           s2 == ReplaceAllUsesWith(s1, vectorVal, assembledVector)
           s3 == getSCMEntry(s2, assembledVector)
       IN updateSCMEntryWithValues(s3, assembledVector, lanes, FALSE)

\* One iteration of the loop of resolveDeferredInstructions, on m_DRL[index].
\* isDummy[i] is what isDummyValue answers for lane i of the target's entry when
\* that lane is a dummy that DeleteInstruction has already destroyed: the read
\* of a destroyed object may give either answer.
resolveDeferredInstruction(s, index, isDummy) ==
  LET current == s.drl[index]
      vectorInst == current.unresolvedInst
      n == vectorInst[2]
      width == WidthOf(s.insts, vectorInst)
      s1 == getSCMEntry(s, vectorInst)
      old == EntryLanes(s1, vectorInst, width)
      scalarsInitialized == old[1] # NULL
      isDummyValue(i) == IF old[i] \in s.freed THEN isDummy[i] ELSE IsDummy(old[i])
      hasDummyLoad == scalarsInitialized /\ \E i \in 1..width : isDummyValue(i)
      fresh == {i \in 1..width : ~scalarsInitialized \/ isDummyValue(i)}
      rank(i) == Cardinality({j \in fresh : j <= i})
      order == [k \in 1..Cardinality(fresh) |-> CHOOSE i \in fresh : rank(i) = k]
      recs == [k \in 1..Len(order) |->
                 I("extractelement", 0, <<vectorInst, ConstInt(order[k] - 1)>>, <<>>,
                   s.insts[n].blk)]
      newInsts == [i \in 1..width |->
                     IF i \in fresh THEN Inst(Len(s1.insts) + rank(i)) ELSE old[i]]
      s2 == IF ~scalarsInitialized \/ hasDummyLoad
            THEN updateSCMEntryWithValues(InsertAt(s1, recs, LocationAfter(s1, n)),
                                          vectorInst, newInsts, FALSE)
            ELSE s1
      scalarVal == EntryLanes(s2, vectorInst, width)
  IN [s2 EXCEPT
        !.insts = [m \in 1..Len(s2.insts) |->
           [s2.insts[m] EXCEPT !.ops = [k \in 1..Len(s2.insts[m].ops) |->
              IF \E i \in 1..width : current.dummyVals[i] = s2.insts[m].ops[k]
              THEN scalarVal[CHOOSE i \in 1..width : current.dummyVals[i] = s2.insts[m].ops[k]]
              ELSE s2.insts[m].ops[k]]]],
        !.freed = s2.freed \cup {current.dummyVals[i] : i \in 1..width}]

\* the loop over m_removedInsts queueing, for every instruction it erases,
\* the instructions that were its operands
eraseRemovedInsts_QueueOperands(s) ==
  [s EXCEPT
     !.insts = [m \in 1..Len(s.insts) |->
        [s.insts[m] EXCEPT !.ops = [k \in 1..Len(s.insts[m].ops) |->
           LET v == s.insts[m].ops[k]
           IN IF IsInst(v) /\ v[2] \in s.removed THEN Undef(s.insts[v[2]].w) ELSE v]]],
     !.body = SelectSeq(s.body, LAMBDA n : n \notin s.removed),
     !.removed = s.removed \cup
        {v[2] : v \in UNION {{s.insts[n].ops[k] : k \in 1..Len(s.insts[n].ops)} :
                                n \in s.removed}
                      \cap {Inst(m) : m \in 1..Len(s.insts)}}]

\* The loop over m_removedInsts at the end of runOnFunction: every use of a
\* removed instruction becomes undef, and the instruction is erased.
eraseRemovedInsts(s) ==
  [s EXCEPT
     !.insts = [m \in 1..Len(s.insts) |->
        [s.insts[m] EXCEPT !.ops = [k \in 1..Len(s.insts[m].ops) |->
           LET v == s.insts[m].ops[k]
           IN IF IsInst(v) /\ v[2] \in s.removed THEN Undef(s.insts[v[2]].w) ELSE v]]],
     !.body = SelectSeq(s.body, LAMBDA n : n \notin s.removed)]

(***************************************************************************)
(* The functions the pass is run on.  A function is a sequence of at most  *)
(* MaxInsts instructions over the arguments Arg(1) (a vector) and Arg(2)   *)
(* (a scalar); instruction i of the sequence is Inst(i).  An operand may   *)
(* be an instruction placed later in the layout: the incoming value of a   *)
(* PHI over a back edge, or an instruction of a block that dominates the   *)
(* user and is laid out after it.                                          *)
(***************************************************************************)
\* A family of functions is named by the opcodes it draws on.  kd[j] is the
\* result of instruction j: its lane count, 0 for a scalar, -1 for none.
Lanes == 0..(W - 1)
Kinds == {-1, 0, W, 2 * W}
Others(kd, i, w) == {Inst(j) : j \in {j \in DOMAIN kd : j # i /\ kd[j] = w}}
Vectors(kd, i) == {Arg(1)} \cup Others(kd, i, W)
Scalars(kd, i) == {Arg(2)} \cup Others(kd, i, 0)

ArithTemplates(kd, i) ==
       {I("add", W, <<x, Arg(1)>>, <<>>, 0) : x \in {ConstVec(W)} \cup Vectors(kd, i)}
  \cup {I("add", W, <<x, ConstVec(W)>>, <<>>, 0) : x \in {ConstVec(W), Undef(W)}}

ExtractTemplates(kd, i) ==
       {I("extractelement", 0, <<x, ConstInt(k)>>, <<>>, 0) : x \in Vectors(kd, i), k \in Lanes}
  \cup {I("extractelement", 0, <<x, ConstInt(W - 1)>>, <<>>, 0) : x \in {ConstVec(W), Undef(W)}}
  \cup {I("extractelement", 0, <<x, Arg(2)>>, <<>>, 0) : x \in Vectors(kd, i)}

InsertTemplates(kd, i) ==
       {I("insertelement", W, <<x, y, ConstInt(k)>>, <<>>, 0) :
           x \in {Undef(W)} \cup Others(kd, i, W), y \in Scalars(kd, i), k \in {0, W - 1}}
  \cup {I("insertelement", W, <<x, Arg(2), Arg(2)>>, <<>>, 0) :
           x \in {Undef(W)} \cup Others(kd, i, W)}

CallTemplates(kd, i) ==
       {I("call", 0, <<x>>, <<>>, 0) :
           x \in Vectors(kd, i) \cup Others(kd, i, 0) \cup Others(kd, i, 2 * W)}
  \cup {I("call", W, <<>>, <<>>, 0)}

PHITemplates(kd, i) ==
  {I("phi", W, <<x, y>>, <<1, 2>>, 0) :
      x \in Vectors(kd, i), y \in Others(kd, i, W) \cup {Inst(i)}}

\* a scalar PHI over the scalar argument and a scalar of the loop
ScalarPHITemplates(kd, i) ==
  {I("phi", 0, <<Arg(2), y>>, <<1, 2>>, 0) : y \in Others(kd, i, 0) \cup {Inst(i)}}

\* a call of a VME send intrinsic, returning a vector
VMETemplates(kd, i) == {I("call", W, <<>>, <<1>>, 0)}

\* <0, .., W-1, undef, .., undef>: the first input widened to 2W lanes
MaskWiden == [i \in 1..(2 * W) |-> IF i <= W THEN i - 1 ELSE -1]
\* lane 0 of the second input, then lanes 1.. of the first
MaskBlend == [i \in 1..W |-> IF i = 1 THEN W ELSE i - 1]
\* the second input, reversed
MaskReverse == [i \in 1..W |-> 2 * W - i]

ShuffleTemplates(kd, i) ==
       {I("shufflevector", 2 * W, <<x, Undef(W)>>, MaskWiden, 0) : x \in Vectors(kd, i)}
  \cup {I("shufflevector", W, <<x, y>>, m, 0) :
           x \in Vectors(kd, i), y \in {Arg(1), Undef(W)}, m \in {MaskBlend, MaskReverse}}
  \cup {I("extractelement", 0, <<x, ConstInt(k)>>, <<>>, 0) :
           x \in Others(kd, i, W) \cup Others(kd, i, 2 * W), k \in Lanes}

CastTemplates(kd, i) ==
       {I("zext", W, <<x>>, <<>>, 0) : x \in {ConstVec(W)} \cup Vectors(kd, i)}
  \cup {I("icmp", W, <<x, ConstVec(W)>>, <<>>, 0) : x \in {ConstVec(W)} \cup Vectors(kd, i)}
  \cup {I("extractelement", 0, <<x, ConstInt(W - 1)>>, <<>>, 0) : x \in Others(kd, i, W)}

\* a vector getelementptr, an alloca, and an opcode the dispatcher has no case
\* for
OtherTemplates(kd, i) ==
       {I("getelementptr", W, <<x, Arg(2)>>, <<>>, 0) : x \in Vectors(kd, i)}
  \cup {I("alloca", 0, <<Arg(2)>>, <<>>, 0)}
  \cup {I("fneg", W, <<x>>, <<>>, 0) : x \in Vectors(kd, i)}

\* bitcasts between vectors of the same lane count, between vectors of
\* different lane counts, from a vector to a scalar and from a scalar to a vector
BitCastTemplates(kd, i) ==
       {I("bitcast", W, <<x>>, <<>>, 0) : x \in {ConstVec(W)} \cup Vectors(kd, i)}
  \cup {I("bitcast", 2 * W, <<x>>, <<>>, 0) : x \in Vectors(kd, i)}
  \cup {I("bitcast", W, <<x>>, <<>>, 0) : x \in Others(kd, i, 2 * W)}
  \cup {I("bitcast", 0, <<x>>, <<>>, 0) : x \in Vectors(kd, i)}
  \cup {I("bitcast", W, <<y>>, <<>>, 0) : y \in Scalars(kd, i)}

\* selects on a scalar and on a vector condition, and the insertelements that
\* make two vectors share some of their lanes
SelectTemplates(kd, i) ==
       {I("select", W, <<c, Arg(1), y>>, <<>>, 0) :
           c \in Vectors(kd, i), y \in {ConstVec(W), Arg(1)}}
  \cup {I("select", W, <<Arg(2), x, y>>, <<>>, 0) :
           x \in {Undef(W)} \cup Vectors(kd, i), y \in Vectors(kd, i)}
  \cup {I("select", W, <<Arg(2), ConstVec(W), ConstVec(W)>>, <<>>, 0)}
  \cup {I("insertelement", W, <<x, Arg(2), ConstInt(k)>>, <<>>, 0) :
           x \in {Undef(W), Arg(1)} \cup Others(kd, i, W), k \in {0}}

\* binary operators and compares that carry arithmetic flags, and some that
\* carry none
FlagTemplates(kd, i) ==
       {I("add", W, <<x, Arg(1)>>, f, 0) : x \in Vectors(kd, i), f \in {<<"nsw", "nuw">>, <<"nsw">>}}
  \cup {I(op, W, <<Arg(1), Arg(1)>>, <<"exact">>, 0) : op \in {"udiv", "lshr"}}
  \cup {I("fadd", W, <<x, Arg(1)>>, f, 0) : x \in {ConstVec(W), Arg(1)}, f \in {<<"fast">>, <<>>}}
  \cup {I("fcmp", W, <<x, Arg(1)>>, f, 0) : x \in Vectors(kd, i), f \in {<<"fast">>, <<>>}}
  \cup {I("icmp", W, <<x, ConstVec(W)>>, <<>>, 0) : x \in Vectors(kd, i)}
  \cup {I("zext", W, <<x>>, <<>>, 0) : x \in Others(kd, i, W)}

\* vector and scalar loads and stores through the pointer argument, and the
\* users of a loaded vector
MemoryTemplates(kd, i) ==
       {I("load", w, <<Arg(3)>>, <<>>, 0) : w \in {0, W}}
  \cup {I("store", 0, <<x, Arg(3)>>, <<>>, 0) :
           x \in {ConstVec(W), Arg(2)} \cup Vectors(kd, i)}
  \cup {I("add", W, <<x, Arg(1)>>, <<>>, 0) : x \in Others(kd, i, W)}
  \cup {I("call", 0, <<x>>, <<>>, 0) : x \in Others(kd, i, W)}

Families == {"core", "shuffle", "cast", "vme", "other", "bitcast", "select", "memory", "flags"}

Templates(fam, kd, i) ==
  {t \in CASE fam = "core" ->
                ArithTemplates(kd, i) \cup ExtractTemplates(kd, i) \cup InsertTemplates(kd, i)
                \cup CallTemplates(kd, i) \cup PHITemplates(kd, i)
           [] fam = "shuffle" -> ShuffleTemplates(kd, i) \cup CallTemplates(kd, i)
           [] fam = "cast" -> CastTemplates(kd, i) \cup CallTemplates(kd, i)
           [] fam = "vme" ->
                VMETemplates(kd, i) \cup PHITemplates(kd, i) \cup ArithTemplates(kd, i)
                \cup ScalarPHITemplates(kd, i)
           [] fam = "other" -> OtherTemplates(kd, i) \cup ArithTemplates(kd, i)
           [] fam = "bitcast" -> BitCastTemplates(kd, i) \cup ArithTemplates(kd, i)
           [] fam = "select" -> SelectTemplates(kd, i)
           [] fam = "memory" -> MemoryTemplates(kd, i)
           [] fam = "flags" -> FlagTemplates(kd, i) :
     kd[i] = IF t.op \in {"call", "store"} /\ t.w = 0 THEN -1 ELSE t.w}

\* Basic blocks: consecutive PHIs share a block, every other instruction opens
\* a block of its own (block 0 is the entry block and holds its terminator only).
BlockOf(p, i) ==
  1 + Cardinality({k \in 2..i : ~(p[k].op = "phi" /\ p[k - 1].op = "phi")})

\* The definitions that must dominate instruction i: the instruction operands
\* of a non-PHI, and of a PHI the value coming in from outside the loop (its
\* first incoming value; the others arrive over back edges).
MustDominate(p, i) ==
  {v[2] : v \in {p[i].ops[k] : k \in (IF p[i].op = "phi" THEN {1} ELSE 1..Len(p[i].ops))}
                \cap {Inst(j) : j \in 1..Len(p)}}

\* the blocks that must strictly dominate one of the blocks bs
RECURSIVE Dominators(_, _, _)
Dominators(p, bs, k) ==
  IF k = 0 THEN bs
  ELSE Dominators(p,
         bs \cup {BlockOf(p, j) : j \in UNION {MustDominate(p, i) :
                                     i \in {i \in 1..Len(p) : BlockOf(p, i) \in bs}}},
         k - 1)

\* the blocks can be ordered so that every definition dominates its uses
Dominance(p) ==
  \A i \in 1..Len(p) :
    BlockOf(p, i) \notin
      Dominators(p, {BlockOf(p, j) : j \in MustDominate(p, i)}, Len(p))

RECURSIVE Layouts(_, _, _)
Layouts(fam, kd, k) ==
  IF k = 0 THEN {<<>>}
  ELSE LET T == Templates(fam, kd, k)
           L == Layouts(fam, kd, k - 1)
       IN {Append(p, t) : p \in L, t \in T}

\* the function laid out as p, with its basic blocks
Function(p) == [i \in 1..Len(p) |-> [p[i] EXCEPT !.blk = BlockOf(p, i)]]

(***************************************************************************)
(* The state of the pass and of the function it runs on.                   *)
(***************************************************************************)
VARIABLES
  insts,                \* the instructions ever created, by id
  body,                 \* the layout of the function: ids in program order
  m_SCM,                \* value -> <<block, slot>> of its SCMEntry
  m_SCMArrays,          \* the pooled blocks of SCMEntry
  m_SCMArrayLocation,   \* next free slot of the last block
  m_DRL,                \* sequence of [unresolvedInst, dummyVals]
  m_usedVectors,        \* sequence without repetition
  m_removedInsts,       \* set of ids
  dctr,                 \* DRL entries made so far
  freed,                \* dummies destroyed by DeleteInstruction
  pc,                   \* idle, traverse, reassemble, resolve, delete, done
  sI,                   \* the traversal iterator: id of the next instruction, 0 at the end
  usedIt,               \* the iterator of resolveVectorValues
  index,                \* the loop index of resolveDeferredInstructions
  runs,                 \* calls of runOnFunction so far
  orig,                 \* the function as it was when runOnFunction was entered
  returned,             \* the value returned by the last runOnFunction
  last,                 \* the instruction just dispatched (0: none)
  m_ScalarizingVectorLDSTType   \* the flag given to the constructor

vars == <<insts, body, m_SCM, m_SCMArrays, m_SCMArrayLocation, m_DRL, m_usedVectors,
          m_removedInsts, dctr, freed, pc, sI, usedIt, index, runs, orig, returned, last,
          m_ScalarizingVectorLDSTType>>

Cur == [insts |-> insts, body |-> body, scm |-> m_SCM, arrays |-> m_SCMArrays,
        loc |-> m_SCMArrayLocation, drl |-> m_DRL, used |-> m_usedVectors,
        removed |-> m_removedInsts, dctr |-> dctr, freed |-> freed,
        ret |-> <<>>, isconst |-> FALSE, ldst |-> m_ScalarizingVectorLDSTType]

Commit(s) ==
  /\ insts' = s.insts
  /\ body' = s.body
  /\ m_SCM' = s.scm
  /\ m_SCMArrays' = s.arrays
  /\ m_SCMArrayLocation' = s.loc
  /\ m_usedVectors' = s.used
  /\ m_removedInsts' = s.removed
  /\ dctr' = s.dctr
  /\ freed' = s.freed

\* the constructor: one pooled block, nothing allocated from it.  The flag
\* is read by the handlers of load and store only, so it is left off for the
\* functions that have neither.
Init ==
  /\ \E n \in 1..MaxInsts, fam \in Families :
       \E kd \in [1..n -> Kinds] :
         \E p \in Layouts(fam, kd, n) :
           /\ Dominance(p)
           /\ insts = Function(p)
           /\ m_ScalarizingVectorLDSTType \in (IF fam = "memory" THEN BOOLEAN ELSE {FALSE})
  /\ body = [i \in 1..Len(insts) |-> i]
  /\ m_SCM = <<>>
  /\ m_SCMArrays = <<NewSCMArray>>
  /\ m_SCMArrayLocation = 0
  /\ m_DRL = <<>>
  /\ m_usedVectors = <<>>
  /\ m_removedInsts = {}
  /\ dctr = 0
  /\ freed = {}
  /\ pc = "idle"
  /\ sI = 0
  /\ usedIt = 1
  /\ index = 1
  /\ runs = 0
  /\ orig = [insts |-> insts, body |-> body]
  /\ returned = FALSE
  /\ last = 0

\* the phases with resolveDeferredInstructions called before resolveVectorValues
PhaseAt_ResolveFirst(it, used, u, drl, d) ==
  IF it # 0 THEN "traverse"
  ELSE IF d <= Len(drl) THEN "resolve"
  ELSE IF u <= Len(used) THEN "reassemble"
  ELSE "delete"

\* the phase runOnFunction is in once the traversal iterator is it, the used-whole
\* iterator u and the DRL index d: the loops run in this order, each to its end
PhaseAt(it, used, u, drl, d) ==
  IF it # 0 THEN "traverse"
  ELSE IF u <= Len(used) THEN "reassemble"
  ELSE IF d <= Len(drl) THEN "resolve"
  ELSE "delete"

\* runOnFunction without "m_removedInsts.clear()" and "m_SCM.clear()"
RunOnFunction_NoClear ==
  /\ pc = "idle" \/ (pc = "done" /\ runs < MaxRuns)
  /\ runs' = runs + 1
  /\ orig' = [insts |-> insts, body |-> body]
  /\ m_usedVectors' = <<>>
  /\ m_SCMArrays' = <<m_SCMArrays[1]>>
  /\ m_SCMArrayLocation' = 0
  /\ m_DRL' = <<>>
  /\ sI' = IF Len(body) = 0 THEN 0 ELSE body[1]
  /\ usedIt' = 1
  /\ index' = 1
  /\ pc' = PhaseAt(sI', <<>>, 1, <<>>, 1)
  /\ last' = 0
  /\ UNCHANGED <<insts, body, dctr, freed, returned, m_SCM, m_removedInsts, m_ScalarizingVectorLDSTType>>

\* runOnFunction up to the first dispatch: the structures of the previous
\* function are dropped (releaseAllSCMEntries keeps the first pooled block)
RunOnFunction ==
  /\ pc = "idle" \/ (pc = "done" /\ runs < MaxRuns)
  /\ runs' = runs + 1
  /\ orig' = [insts |-> insts, body |-> body]
  /\ m_usedVectors' = <<>>
  /\ m_removedInsts' = {}
  /\ m_SCM' = <<>>
  /\ m_SCMArrays' = <<m_SCMArrays[1]>>
  /\ m_SCMArrayLocation' = 0
  /\ m_DRL' = <<>>
  /\ sI' = IF Len(body) = 0 THEN 0 ELSE body[1]
  /\ usedIt' = 1
  /\ index' = 1
  /\ pc' = PhaseAt(sI', <<>>, 1, <<>>, 1)
  /\ last' = 0
  /\ UNCHANGED <<insts, body, dctr, freed, returned, m_ScalarizingVectorLDSTType>>

\* one iteration of the traversal loop
Dispatch ==
  /\ pc = "traverse"
  /\ LET currInst == sI
         p == PosOf(Cur, currInst)
         s == dispatchInstructionToScalarize(Cur, currInst)
     IN /\ Commit(s)
        /\ m_DRL' = s.drl
        /\ sI' = IF p = Len(body) THEN 0 ELSE body[p + 1]
        /\ pc' = PhaseAt(sI', s.used, 1, s.drl, 1)
        /\ last' = currInst
  /\ UNCHANGED <<usedIt, index, runs, orig, returned, m_ScalarizingVectorLDSTType>>

\* one iteration of the loop of resolveVectorValues
ResolveVectorValues ==
  /\ pc = "reassemble"
  /\ LET s == obtainVectorValueWhichMightBeScalarizedImpl(Cur, m_usedVectors[usedIt])
     IN /\ Commit(s)
        /\ m_DRL' = s.drl
        /\ usedIt' = usedIt + 1
        /\ pc' = PhaseAt(0, s.used, usedIt', s.drl, 1)
  /\ last' = 0
  /\ UNCHANGED <<sI, index, runs, orig, returned, m_ScalarizingVectorLDSTType>>

\* resolveDeferredInstructions without its final "m_DRL.clear()"
ResolveDeferredInstructions_NoClear ==
  /\ pc = "resolve"
  /\ LET target == m_DRL[index].unresolvedInst
         width == WidthOf(insts, target)
         lanes == IF HasEntry(Cur, target) THEN EntryLanes(Cur, target, width)
                  ELSE [i \in 1..width |-> NULL]
     IN \E isDummy \in {f \in [1..width -> BOOLEAN] : \A i \in 1..width : f[i] => lanes[i] \in freed} :
          LET s == resolveDeferredInstruction(Cur, index, isDummy)
          IN /\ Commit(s)
             /\ index' = index + 1
             /\ m_DRL' = m_DRL
             /\ pc' = PhaseAt(0, <<>>, 1, m_DRL, index')
  /\ last' = 0
  /\ UNCHANGED <<sI, usedIt, runs, orig, returned, m_ScalarizingVectorLDSTType>>

\* one iteration of the loop of resolveDeferredInstructions; the DRL is cleared
\* after the last one
ResolveDeferredInstructions ==
  /\ pc = "resolve"
  /\ LET target == m_DRL[index].unresolvedInst
         width == WidthOf(insts, target)
         lanes == IF HasEntry(Cur, target) THEN EntryLanes(Cur, target, width)
                  ELSE [i \in 1..width |-> NULL]
     IN \E isDummy \in {f \in [1..width -> BOOLEAN] : \A i \in 1..width : f[i] => lanes[i] \in freed} :
          LET s == resolveDeferredInstruction(Cur, index, isDummy)
          IN /\ Commit(s)
             /\ index' = index + 1
             /\ m_DRL' = IF index' > Len(m_DRL) THEN <<>> ELSE m_DRL
             /\ pc' = PhaseAt(0, <<>>, 1, m_DRL, index')
  /\ last' = 0
  /\ UNCHANGED <<sI, usedIt, runs, orig, returned, m_ScalarizingVectorLDSTType>>

\* the loop over m_removedInsts, and the return
EraseRemovedInsts ==
  /\ pc = "delete"
  /\ Commit(eraseRemovedInsts(Cur))
  /\ pc' = "done"
  /\ returned' = TRUE
  /\ last' = 0
  /\ UNCHANGED <<m_DRL, sI, usedIt, index, runs, orig, m_ScalarizingVectorLDSTType>>

Next ==
  \/ RunOnFunction
  \/ Dispatch
  \/ ResolveVectorValues
  \/ ResolveDeferredInstructions
  \/ EraseRemovedInsts

Spec == Init /\ [][Next]_vars

\* a step is possible: a call is under way, or one more call may be made
CanStep == pc # "done" \/ runs < MaxRuns

\* runOnFunction is straight-line code around its loops, so a call that has
\* been entered goes on to its next step: weak fairness of Next, WF_vars(Next),
\* with ENABLED <<Next>>_vars written out as CanStep (the guards of the actions
\* test pc and runs only)
FairSpec == Spec /\ ([]<>(~CanStep) \/ []<><<Next>>_vars)

(***************************************************************************)
(* What a value computes.  Sem(F, v, i, phis, fuel) is the term computed   *)
(* by lane i of value v in the function with instruction table F (lane 1   *)
(* of a scalar).  insertelement, extractelement and shufflevector move     *)
(* lanes and leave no trace in the term; a PHI is unfolded phis times; a   *)
(* select of two equal terms is that term; a call, and a cast that changes *)
(* the lane count, are opaque; a load reads an address, the address of     *)
(* lane i of a vector being element i of the vector the pointer points to. *)
(* Two values with the same term compute the same result for all inputs.   *)
(***************************************************************************)
RECURSIVE Sem(_, _, _, _, _)
Sem(F, v, i, phis, fuel) ==
  IF fuel = 0 THEN <<"cycle">>
  ELSE
  CASE v[1] = "arg" -> <<"arg", v[2], i>>
    [] v[1] = "undef" -> <<"undef">>
    [] v[1] = "const" -> <<"const", v[2], i>>
    [] v[1] = "celem" -> <<"const", v[2], v[3] + 1>>
    [] v[1] = "cint" -> <<"cint", v[2]>>
    [] v[1] = "dummy" -> <<"destroyed", v[2], v[3]>>
    [] v[1] = "null" -> <<"null">>
    [] v[1] = "inst" ->
         LET r == F[v[2]]
             S(x, j) == Sem(F, x, j, phis, fuel - 1)
             All(x) == [j \in 1..WidthOf(F, x) |-> S(x, j)]
         IN CASE r.op \in BinaryOps \cup CmpOps -> <<r.op, S(r.ops[1], i), S(r.ops[2], i)>>
              [] r.op \in CastOps /\ r.w = WidthOf(F, r.ops[1]) -> <<r.op, S(r.ops[1], i)>>
              [] r.op = "select" /\ r.w = 0 ->
                   <<r.op, S(r.ops[1], 1), S(r.ops[2], 1), S(r.ops[3], 1)>>
              [] r.op = "select" /\ r.w > 0 ->
                   IF S(r.ops[2], i) = S(r.ops[3], i) THEN S(r.ops[2], i)
                   ELSE <<r.op, S(r.ops[1], IF WidthOf(F, r.ops[1]) > 0 THEN i ELSE 1),
                          S(r.ops[2], i), S(r.ops[3], i)>>
              [] r.op = "extractelement" ->
                   IF IsConstantInt(r.ops[2]) THEN S(r.ops[1], r.ops[2][2] + 1)
                   ELSE <<r.op, All(r.ops[1]), S(r.ops[2], 1)>>
              [] r.op = "insertelement" ->
                   IF IsConstantInt(r.ops[3])
                   THEN IF i = r.ops[3][2] + 1 THEN S(r.ops[2], 1) ELSE S(r.ops[1], i)
                   ELSE <<r.op, All(r.ops[1]), S(r.ops[2], 1), S(r.ops[3], 1), i>>
              [] r.op = "shufflevector" ->
                   LET m == r.aux[i]
                       w0 == WidthOf(F, r.ops[1])
                   IN IF m < 0 THEN <<"undef">>
                      ELSE IF m < w0 THEN S(r.ops[1], m + 1)
                      ELSE S(r.ops[2], m - w0 + 1)
              [] r.op = "load" ->
                   IF r.w > 0 THEN <<r.op, <<"element", S(r.ops[1], 1), i - 1>>>>
                   ELSE <<r.op, S(r.ops[1], 1)>>
              [] /\ r.op = "getelementptr" /\ r.w = 0 /\ IsConstantInt(r.ops[2])
                 /\ IsInst(r.ops[1]) /\ F[r.ops[1][2]].op = "bitcast"
                 /\ F[r.ops[1][2]].w = 0 ->
                   <<"element", S(F[r.ops[1][2]].ops[1], 1), r.ops[2][2]>>
              [] r.op = "phi" ->
                   IF phis = 0 THEN <<"phi">>
                   ELSE <<"phi", r.blk, r.aux,
                          [j \in 1..Len(r.ops) |-> Sem(F, r.ops[j], i, phis - 1, fuel - 1)]>>
              [] OTHER ->
                   <<r.op, r.aux, i,
                     [j \in 1..Len(r.ops) |->
                        IF WidthOf(F, r.ops[j]) > 0 THEN All(r.ops[j]) ELSE <<S(r.ops[j], 1)>>]>>

\* the term of lane i of v, PHI cycles unfolded PhiDepth times
Term(F, v, i) == Sem(F, v, i, PhiDepth, (PhiDepth + 1) * Len(F) + 1)

\* instruction n of F has a vector result or a vector operand
IsVectorInst(F, n) ==
  F[n].w > 0 \/ \E k \in 1..Len(F[n].ops) : WidthOf(F, F[n].ops[k]) > 0

\* dispatchInstructionToScalarize decomposes instruction n of F: it does not
\* hand it to recoverNonScalarizableInst
IsDecomposable(F, n) ==
  CASE F[n].op = "bitcast" -> F[n].w > 0 /\ F[n].w = WidthOf(F, F[n].ops[1])
    [] F[n].op \in (BinaryOps \cup CmpOps \cup CastOps \cup {"shufflevector", "select"})
                    \ {"bitcast"} -> TRUE
    [] F[n].op = "extractelement" -> IsConstantInt(F[n].ops[2])
    [] F[n].op = "insertelement" -> IsConstantInt(F[n].ops[3])
    [] F[n].op = "phi" ->
         \A k \in 1..Len(F[n].ops) : ~IsVMESend([insts |-> F], F[n].ops[k])
    [] F[n].op = "load" -> m_ScalarizingVectorLDSTType /\ F[n].w > 0
    [] F[n].op = "store" -> m_ScalarizingVectorLDSTType /\ WidthOf(F, F[n].ops[1]) > 0
    [] OTHER -> FALSE

\* the lanes of a value of w lanes (a scalar has one)
LanesOf(w) == 1..(IF w > 0 THEN w ELSE 1)

\* a value that is part of the function when the pass has returned
Survives(v) ==
  CASE IsInst(v) -> InBody(Cur, v[2])
    [] IsDummy(v) \/ v = NULL -> FALSE
    [] OTHER -> TRUE

(***************************************************************************)
(* Claims.                                                                 *)
(***************************************************************************)
\* every vector instruction of the function the pass was given is decomposable
AllDecomposable ==
  \A n \in 1..Len(orig.body) :
    IsVectorInst(orig.insts, orig.body[n]) => IsDecomposable(orig.insts, orig.body[n])

\* the original instructions the pass has left in the function
Kept == {n \in 1..Len(insts) : InBody(orig, n) /\ InBody(Cur, n)}
\* the original vector instructions the pass has replaced by the lanes of
\* their SCM entry
Replaced ==
  {n \in 1..Len(orig.insts) :
     /\ InBody(orig, n) /\ ~InBody(Cur, n) /\ orig.insts[n].w > 0
     /\ IsResolved(Cur, Inst(n))}

\* C1: when every vector instruction of the function is decomposable, then
\* once runOnFunction has returned every instruction it has kept computes,
\* lane by lane, what it computed before the call, and every lane that stands
\* for a lane of a replaced vector instruction and is still part of the
\* function computes what that lane of the vector computed.
C1_SemanticEquivalence ==
  (pc = "done" /\ AllDecomposable) =>
    /\ \A n \in Kept : \A i \in LanesOf(insts[n].w) :
         Term(insts, Inst(n), i) = Term(orig.insts, Inst(n), i)
    /\ \A n \in Replaced : \A i \in 1..orig.insts[n].w :
         LET lane == EntryLanes(Cur, Inst(n), orig.insts[n].w)[i]
         IN Survives(lane) => Term(insts, lane, 1) = Term(orig.insts, Inst(n), i)

\* an instruction of the function has a placeholder (dummy load) as an operand
PlaceholderReferenced ==
  \E p \in 1..Len(body) : \E k \in 1..Len(insts[body[p]].ops) : IsDummy(insts[body[p]].ops[k])

\* C2: once resolveDeferredInstructions has run, no instruction that remains
\* in the function has a placeholder as an operand.
C2_DRLClosure ==
  pc \in {"delete", "done"} => ~PlaceholderReferenced

\* the resolved entries of the SCM: those whose lane 0 is set
ResolvedValues == {v \in DOMAIN m_SCM : IsResolved(Cur, v)}

\* C3: in every state of the pass, every resolved SCM entry has exactly as
\* many lanes as its owner's vector type, and none of them is null.
C3_LaneInvariant ==
  \A v \in ResolvedValues :
    /\ Len(Entry(Cur, v).scalarValues) = WidthOf(insts, v)
    /\ \A i \in 1..WidthOf(insts, v) : Entry(Cur, v).scalarValues[i] # NULL

\* a second run has resolved, with forward references, an entry of each pooled
\* block: one in the block kept across the reset, one in a block allocated anew
C3_Witness ==
  /\ runs = 2 /\ pc = "done" /\ freed # {}
  /\ \E v, u \in ResolvedValues : m_SCM[v][1] = 1 /\ m_SCM[u][1] = 2

\* C4: a run of the pass on a function that an earlier run has already
\* scalarized adds no instruction and removes no instruction.
C4_Idempotence ==
  (runs = 2 /\ pc = "done") => (body = orig.body /\ Len(insts) = Len(orig.insts))

\* the call of runOnFunction has added an instruction to the function or
\* removed one from it
Modified ==
  \/ Len(insts) # Len(orig.insts)
  \/ \E n \in 1..Len(orig.insts) : InBody(orig, n) /\ ~InBody(Cur, n)

\* C5: runOnFunction returns true if and only if the call has added or
\* removed at least one instruction.
C5_ReturnValue ==
  pc = "done" => (returned <=> Modified)

\* the placeholders owned by DRL entry j
DummiesOf(j) == {m_DRL[j].dummyVals[i] : i \in 1..Len(m_DRL[j].dummyVals)}

\* an instruction of function body b over table t has the value d as an operand
UsedIn(t, b, d) ==
  \E p \in 1..Len(b) : \E k \in 1..Len(t[b[p]].ops) : t[b[p]].ops[k] = d

\* every DRL entry owns as many placeholders as its target has lanes, shared
\* with no other entry; none is destroyed before the entry is processed; the
\* DRL is empty outside traversal, reassembly and resolution
C6_State ==
  /\ \A j \in 1..Len(m_DRL) :
       /\ Len(m_DRL[j].dummyVals) = WidthOf(insts, m_DRL[j].unresolvedInst)
       /\ Cardinality(DummiesOf(j)) = Len(m_DRL[j].dummyVals)
       /\ \A d \in DummiesOf(j) : IsDummy(d)
       /\ \A k \in 1..Len(m_DRL) : k # j => DummiesOf(j) \cap DummiesOf(k) = {}
       /\ (pc # "resolve" \/ j >= index) => DummiesOf(j) \cap freed = {}
       /\ (pc = "resolve" /\ j < index) => DummiesOf(j) \subseteq freed
  /\ pc \in {"idle", "delete", "done"} => m_DRL = <<>>

\* a step destroys placeholders only when it resolves a DRL entry, and then
\* exactly the placeholders of that entry, after replacing their every use;
\* the entries are processed in order, one per step
C6_Step ==
  IF pc = "resolve"
  THEN /\ freed' \ freed = DummiesOf(index)
       /\ \A d \in DummiesOf(index) : ~UsedIn(insts', body', d)
       /\ index' = index + 1
       /\ index <= Len(m_DRL)
       /\ pc' = "resolve" => m_DRL' = m_DRL
  ELSE freed' = freed

\* C6: every placeholder is substituted once and destroyed once, when its DRL
\* entry is resolved and not before; a DRL entry owns width fresh placeholders
\* of its own, is processed once, and the DRL is empty when resolution ends.
C6_PlaceholdersOnce == []C6_State /\ [][C6_Step]_vars

\* two DRL entries have been resolved in one run and resolution has ended
C6_Witness ==
  /\ pc = "delete" /\ index = 3 /\ m_DRL = <<>>
  /\ Cardinality(freed) >= 2 * W

\* instruction n is a vector binary operator or compare with two constant
\* operands, or a vector cast (of matching lane count) with a constant operand
HasConstantOperands(n) ==
  /\ n # 0 /\ insts[n].w > 0
  /\ \/ insts[n].op \in BinaryOps \cup CmpOps
          /\ IsConstant(insts[n].ops[1]) /\ IsConstant(insts[n].ops[2])
     \/ insts[n].op \in CastOps
          /\ IsConstant(insts[n].ops[1]) /\ WidthOf(insts, insts[n].ops[1]) = insts[n].w

\* instruction n is in the function and outside m_removedInsts, and its SCM
\* entry exists and is unresolved
LeftInPlace(n) ==
  InBody(Cur, n) /\ n \notin m_removedInsts /\ HasEntry(Cur, Inst(n)) /\ ~IsResolved(Cur, Inst(n))

\* C7: dispatching a vector binary operator or compare whose operands are both
\* constants, or a vector cast of a constant, creates no instruction, leaves
\* the instruction in the function and out of the removed set, adds no DRL
\* entry and leaves the instruction's SCM entry unresolved.
C7_ConstantShortCircuit ==
  [][(pc = "traverse" /\ HasConstantOperands(sI)) =>
       /\ Len(insts') = Len(insts) /\ body' = body
       /\ m_removedInsts' = m_removedInsts /\ m_DRL' = m_DRL
       /\ last' = sI /\ LeftInPlace(last)']_vars

\* a cast of a constant has just been dispatched, after a binary operator or
\* compare of two constants
C7_Witness ==
  /\ HasConstantOperands(last) /\ insts[last].op \in CastOps /\ LeftInPlace(last)
  /\ \E n \in 1..Len(insts) :
       /\ HasConstantOperands(n) /\ insts[n].op \in BinaryOps \cup CmpOps /\ LeftInPlace(n)

\* instruction n of table t is a vector binary operator with an operand that
\* is not a constant
IsNonConstBinary(t, n) ==
  /\ n # 0 /\ t[n].op \in BinaryOps /\ t[n].w > 0
  /\ ~(IsConstant(t[n].ops[1]) /\ IsConstant(t[n].ops[2]))

\* x is lane i of the decomposition of operand v: the lane of v's resolved SCM
\* entry, else a scalar undef or constant element, else a placeholder of a DRL
\* entry made for v
IsLaneOf(x, v, i) ==
  IF IsResolved(Cur, v) THEN x = Entry(Cur, v).scalarValues[i]
  ELSE IF IsUndef(v) THEN x = Undef(0)
  ELSE IF IsConstant(v) THEN x = ConstElem(WidthOf(insts, v), i - 1)
  ELSE \E j \in 1..Len(m_DRL) : m_DRL[j].unresolvedInst = v /\ m_DRL[j].dummyVals[i] = x

\* the state left by the dispatch of the binary operator `last`
C8_Dispatched ==
  LET BI == insts[last]
      e == Entry(Cur, Inst(last))
  IN /\ last \in m_removedInsts
     /\ IsResolved(Cur, Inst(last)) /\ e.isOriginalVectorRemoved
     /\ Len(e.scalarValues) = BI.w
     /\ \A i \in 1..BI.w :
          LET x == e.scalarValues[i]
          IN /\ IsInst(x) /\ InBody(Cur, x[2])
             /\ insts[x[2]].op = BI.op /\ insts[x[2]].w = 0
             /\ Len(insts[x[2]].ops) = 2
             /\ IsLaneOf(insts[x[2]].ops[1], BI.ops[1], i)
             /\ IsLaneOf(insts[x[2]].ops[2], BI.ops[2], i)
     /\ \A i, j \in 1..BI.w : i # j => e.scalarValues[i] # e.scalarValues[j]

\* the dispatch of a vector binary operator with a non-constant operand
\* creates exactly w instructions of its opcode, which are its w lanes
C8_Step ==
  (pc = "traverse" /\ IsNonConstBinary(insts, sI)) =>
    /\ Cardinality({m \in (Len(insts) + 1)..Len(insts') : insts'[m].op = insts[sI].op})
         = insts[sI].w
    /\ last' = sI
    /\ C8_Dispatched'

\* the instruction table with every use of instruction n replaced by undef
Without(n) ==
  [m \in 1..Len(insts) |->
     [insts[m] EXCEPT !.ops = [k \in 1..Len(insts[m].ops) |->
        IF insts[m].ops[k] = Inst(n) THEN Undef(insts[n].w) ELSE insts[m].ops[k]]]]

\* when the deletion loop starts, every decomposed binary operator is to be
\* deleted and no instruction that stays depends on it: each consumer has been
\* given its lanes or a reassembled vector
C8_End ==
  pc = "delete" =>
    \A n \in 1..Len(orig.insts) :
      (InBody(orig, n) /\ IsNonConstBinary(orig.insts, n)) =>
        /\ n \in m_removedInsts
        /\ \A p \in 1..Len(body) :
             body[p] \notin m_removedInsts =>
               \A i \in LanesOf(insts[body[p]].w) :
                 Term(Without(n), Inst(body[p]), i) = Term(insts, Inst(body[p]), i)

\* C8: dispatching a vector binary operator of width w with a non-constant
\* operand creates exactly w scalar instructions of the same opcode, lane i
\* taking lane i of each operand; the original is recorded in the SCM as
\* removed with those lanes and put in the removed set; at the end of the pass
\* it is deleted, its consumers using the lanes or a reassembled vector.
C8_BinaryDecomposition == [][C8_Step]_vars /\ []C8_End

\* instruction n is an extractelement, with a constant index or not
IsExtract(n, const) ==
  n # 0 /\ insts[n].op = "extractelement" /\ (IsConstantInt(insts[n].ops[2]) <=> const)

\* the lanes of v are not in the SCM and cannot be had without new
\* instructions: v is an argument, or an instruction that has an SCM entry
\* with no lanes (the result of a Recovery instruction, for one)
NeedsBreakdown(v) ==
  /\ ~IsResolved(Cur, v) /\ ~IsConstant(v)
  /\ IsInst(v) => HasEntry(Cur, Inst(v[2]))

\* operand k of instruction m is lane `index + 1` of the source of the
\* extractelement `last`
UsesExtractedLane(m, k) ==
  IsLaneOf(insts[m].ops[k], insts[last].ops[1], insts[last].ops[2][2] + 1)

\* what the dispatch of an extractelement with a constant index does to its
\* uses and to the removed set, and what the dispatch of one with a
\* non-constant index does
C9_Effect ==
  /\ (pc = "traverse" /\ IsExtract(sI, TRUE)) =>
       /\ last' = sI /\ last' \in m_removedInsts'
       /\ InBody(Cur, last)'
       /\ \A m \in 1..Len(insts) : \A k \in 1..Len(insts[m].ops) :
            /\ insts'[m].ops[k] # Inst(sI)
            /\ insts[m].ops[k] = Inst(sI) => UsesExtractedLane(m, k)'
            /\ insts[m].ops[k] # Inst(sI) => insts'[m].ops[k] = insts[m].ops[k]
       /\ m_usedVectors' = m_usedVectors
  /\ (pc = "traverse" /\ IsExtract(sI, FALSE)) =>
       /\ insts' = insts /\ body' = body /\ m_removedInsts' = m_removedInsts
       /\ m_DRL' = m_DRL /\ m_SCM' = m_SCM
       /\ \E j \in 1..Len(m_usedVectors') : m_usedVectors'[j] = insts[sI].ops[1]

\* the instructions created by the dispatch of the extractelement sI are the
\* extractions of the w lanes of its source
CreatesBreakdown ==
  /\ Len(insts') = Len(insts) + WidthOf(insts, insts[sI].ops[1])
  /\ \A i \in 1..WidthOf(insts, insts[sI].ops[1]) :
       /\ insts'[Len(insts) + i].op = "extractelement"
       /\ insts'[Len(insts) + i].ops = <<insts[sI].ops[1], ConstInt(i - 1)>>

\* C9 (as stated): dispatching an extractelement with a constant index creates
\* no instruction, whatever its source; its uses are replaced by lane k of the
\* source's decomposition and it is put in the removed set; with a
\* non-constant index it is handled as Recovery.
C9_ExtractAnySource ==
  [][/\ C9_Effect
     /\ (pc = "traverse" /\ IsExtract(sI, TRUE)) => Len(insts') = Len(insts)]_vars

\* C9 (amended): as above, but no instruction is created only when the
\* source's lanes are in the SCM, or the source is a constant, undef or a
\* forward reference; for an argument or an undecomposed instruction result
\* whose lanes are not in the SCM, the w extractions of its lanes are created.
C9_ExtractElement ==
  [][/\ C9_Effect
     /\ (pc = "traverse" /\ IsExtract(sI, TRUE)) =>
          IF NeedsBreakdown(insts[sI].ops[1]) THEN CreatesBreakdown
          ELSE Len(insts') = Len(insts)]_vars

\* an extractelement of lane W-1 of the argument has just been dispatched: the
\* argument was broken down for it, and an instruction that used it uses the
\* extraction of lane W-1 instead
C9_Witness ==
  /\ IsExtract(last, TRUE) /\ insts[last].ops = <<Arg(1), ConstInt(W - 1)>>
  /\ last \in m_removedInsts /\ IsResolved(Cur, Arg(1))
  /\ \E m \in 1..Len(orig.insts) : \E k \in 1..Len(insts[m].ops) :
       /\ orig.insts[m].ops[k] = Inst(last)
       /\ insts[m].ops[k] = Entry(Cur, Arg(1)).scalarValues[W]
       /\ insts[m].ops[k][2] > Len(orig.insts)

\* x is the lane that mask element m selects from the inputs of the
\* shufflevector SI: a scalar undef for a negative m or an undef input, else
\* the lane of the first input (m below its width) or of the second
IsShuffledLane(x, SI, m) ==
  LET w0 == WidthOf(insts, SI.ops[1])
      input == IF m < w0 THEN SI.ops[1] ELSE SI.ops[2]
  IN IF m < 0 \/ IsUndef(input) THEN x = Undef(0)
     ELSE IsLaneOf(x, input, (m % w0) + 1)

\* the state left by the dispatch of the shufflevector `last`
C10_Dispatched ==
  LET SI == insts[last]
      e == Entry(Cur, Inst(last))
  IN /\ last \in m_removedInsts /\ InBody(Cur, last)
     /\ HasEntry(Cur, Inst(last)) /\ e.isOriginalVectorRemoved
     /\ Len(e.scalarValues) = Len(SI.aux)
     /\ \A i \in 1..Len(SI.aux) : IsShuffledLane(e.scalarValues[i], SI, SI.aux[i])

\* C10: dispatching a shufflevector emits no shuffle: its SCM entry gets one
\* lane per mask element, lane i being element mask[i] of the concatenation of
\* the lanes of input 0 and of input 1, and a scalar undef when mask[i] is
\* negative or selects from an undef input; the shuffle is marked removed.
C10_ShuffleVector ==
  [][(pc = "traverse" /\ sI # 0 /\ insts[sI].op = "shufflevector") =>
       /\ last' = sI /\ C10_Dispatched'
       /\ \A m \in (Len(insts) + 1)..Len(insts') : insts'[m].op # "shufflevector"]_vars

\* the shuffle of a decomposed <W x T> value with undef under the mask
\* <0, .., W-1, undef, .., undef> has just been dispatched: its first W lanes
\* are the lanes of the value, the others are scalar undef
C10_Witness ==
  /\ last # 0 /\ insts[last].op = "shufflevector"
  /\ insts[last].aux = MaskWiden /\ insts[last].ops[2] = Undef(W)
  /\ IsInst(insts[last].ops[1]) /\ IsResolved(Cur, insts[last].ops[1])
  /\ last \in m_removedInsts /\ Entry(Cur, Inst(last)).isOriginalVectorRemoved
  /\ Entry(Cur, Inst(last)).scalarValues =
       [i \in 1..(2 * W) |->
          IF i <= W THEN Entry(Cur, insts[last].ops[1]).scalarValues[i] ELSE Undef(0)]

\* instruction n of table t is a vector PHI with an incoming value that is the
\* result of a VME send
IsVMEPhi(t, n) ==
  /\ n # 0 /\ t[n].op = "phi" /\ t[n].w > 0
  /\ \E k \in 1..Len(t[n].ops) : IsVMESend([insts |-> t], t[n].ops[k])

\* the state left by the dispatch of the PHI `last`, which is kept whole
C11_Dispatched ==
  /\ InBody(Cur, last) /\ last \notin m_removedInsts
  /\ HasEntry(Cur, Inst(last)) /\ ~IsResolved(Cur, Inst(last))
  /\ ~Entry(Cur, Inst(last)).isOriginalVectorRemoved
  /\ \A k \in 1..Len(insts[last].ops) :
       WidthOf(insts, insts[last].ops[k]) > 0 =>
         \E j \in 1..Len(m_usedVectors) : m_usedVectors[j] = insts[last].ops[k]

\* the dispatch of a vector PHI with a VME send among its incoming values
\* creates no instruction, removes none and adds no DRL entry
C11_Step ==
  (pc = "traverse" /\ IsVMEPhi(insts, sI)) =>
    /\ insts' = insts /\ body' = body
    /\ m_removedInsts' = m_removedInsts /\ m_DRL' = m_DRL
    /\ last' = sI /\ C11_Dispatched'

\* where the vector of the removed instruction d is rebuilt: where d stands,
\* after the PHIs of its block if d is a PHI
SiteOf(d) ==
  IF insts[d].op = "phi" THEN FirstNonPHIPos(Cur, insts[d].blk) ELSE PosOf(Cur, d)

\* a reassembly step on a removed instruction d inserts, at the site of d, a
\* chain of insertelements that puts the lanes of d's SCM entry, in order, in
\* an undef vector, and every use of d becomes a use of the end of the chain
C11_Reassembly ==
  (/\ pc = "reassemble" /\ IsInst(m_usedVectors[usedIt])
   /\ m_usedVectors[usedIt][2] \in m_removedInsts) =>
    LET d == m_usedVectors[usedIt][2]
        w == insts[d].w
        n0 == Len(insts)
    IN /\ Len(insts') = n0 + w
       /\ \A i \in 1..w :
            /\ insts'[n0 + i].op = "insertelement" /\ insts'[n0 + i].blk = insts[d].blk
            /\ insts'[n0 + i].ops =
                 <<IF i = 1 THEN Undef(w) ELSE Inst(n0 + i - 1),
                   Entry(Cur, Inst(d)).scalarValues[i], ConstInt(i - 1)>>
            /\ body'[SiteOf(d) + i - 1] = n0 + i
       /\ \A m \in 1..n0 : \A k \in 1..Len(insts[m].ops) :
            insts'[m].ops[k] = IF insts[m].ops[k] = Inst(d) THEN Inst(n0 + w)
                               ELSE insts[m].ops[k]

\* once reassembly has ended, no PHI kept whole has a removed instruction as
\* an incoming value: where it had one it has a rebuilt vector of the same
\* block as the removed instruction
C11_End ==
  pc \in {"resolve", "delete"} =>
    \A n \in 1..Len(orig.insts) :
      (InBody(orig, n) /\ IsVMEPhi(orig.insts, n)) =>
        \A k \in 1..Len(insts[n].ops) :
          LET was == orig.insts[n].ops[k]
              now == insts[n].ops[k]
          IN IF IsInst(was) /\ was[2] \in m_removedInsts
             THEN /\ IsInst(now) /\ now[2] > Len(orig.insts)
                  /\ now[2] \notin m_removedInsts /\ InBody(Cur, now[2])
                  /\ insts[now[2]].op = "insertelement"
                  /\ insts[now[2]].blk = insts[was[2]].blk
                  /\ (insts[was[2]].op # "phi") =>
                       PosOf(Cur, now[2]) + 1 = PosOf(Cur, was[2])
             ELSE now = was

\* C11: a vector PHI with an incoming value produced by a VME send intrinsic
\* is left intact: no lane PHI is created, it is not put in the removed set,
\* it gets an unresolved, non-removed SCM entry, and its vector incoming values
\* are put in the used-whole set; each incoming value whose defining
\* instruction was removed is rebuilt at that instruction's site, whether the
\* instruction is visited before the PHI or after it.
C11_VMEPhi == [][C11_Step]_vars /\ [][C11_Reassembly]_vars /\ []C11_End

\* the pass is about to delete a decomposed instruction that is laid out after
\* a PHI kept whole whose incoming value it was; the PHI takes the rebuilt
\* vector instead
C11_Witness ==
  /\ pc = "delete"
  /\ \E n \in 1..Len(orig.insts) : \E k \in 1..Len(orig.insts[n].ops) :
       /\ InBody(orig, n) /\ IsVMEPhi(orig.insts, n)
       /\ IsInst(orig.insts[n].ops[k]) /\ orig.insts[n].ops[k][2] \in m_removedInsts
       /\ PosOf(Cur, orig.insts[n].ops[k][2]) > PosOf(Cur, n)
       /\ insts[insts[n].ops[k][2]].op = "insertelement"

\* every instruction the function had when runOnFunction was entered is still
\* in it
NothingDeleted == \A p \in 1..Len(orig.body) : InBody(Cur, orig.body[p])

\* what a step of each phase requires of the phases before it: a dispatch, that
\* no reassembly, resolution or deletion of this call has happened; a
\* reassembly step, that the traversal is at its end; a resolution step, that
\* the used-whole set is exhausted too; the deletion, that the DRL is too
C12_Step ==
  /\ runs' # runs =>
       /\ pc \in {"idle", "done"} /\ runs' = runs + 1
       /\ usedIt' = 1 /\ index' = 1 /\ body' = body /\ insts' = insts
  /\ (runs' = runs /\ last' # 0) =>
       /\ sI # 0 /\ usedIt = 1 /\ index = 1 /\ NothingDeleted
       /\ usedIt' = 1 /\ index' = 1 /\ NothingDeleted'
  /\ (runs' = runs /\ usedIt' # usedIt) =>
       /\ sI = 0 /\ sI' = 0 /\ usedIt <= Len(m_usedVectors) /\ usedIt' = usedIt + 1
       /\ m_usedVectors' = m_usedVectors
       /\ index = 1 /\ index' = 1 /\ freed' = freed /\ NothingDeleted'
  /\ (runs' = runs /\ index' # index) =>
       /\ sI = 0 /\ sI' = 0 /\ usedIt > Len(m_usedVectors) /\ usedIt' = usedIt
       /\ index <= Len(m_DRL) /\ index' = index + 1 /\ NothingDeleted'
  /\ (runs' = runs /\ ~NothingDeleted') =>
       /\ sI = 0 /\ usedIt > Len(m_usedVectors) /\ index > Len(m_DRL)
       /\ m_DRL = <<>> /\ pc' = "done"
  /\ pc' = "done" => (pc = "done" \/ (pc = "delete" /\ runs' = runs))
  /\ pc = "delete" =>
       (sI = 0 /\ usedIt > Len(m_usedVectors) /\ m_DRL = <<>> /\ pc' = "done")

\* C12: in every call of runOnFunction the phases run in the order reset,
\* traversal, reassembly over the used-whole set, DRL resolution, deletion: no
\* reassembly step before the traversal has ended, no resolution step before
\* the reassembly has ended, no deletion before the resolution has ended.
C12_PhaseOrder == [][C12_Step]_vars

\* a call in which every phase had work to do is about to return
C12_Witness ==
  /\ pc = "done" /\ runs = 1 /\ usedIt > 1 /\ index > 1
  /\ ~NothingDeleted /\ Len(insts) > Len(orig.insts)

\* C13: when the traversal of a function starts, the SCM, the DRL, the
\* used-whole set and the removed set are empty, whatever an earlier call of
\* the same pass instance has left in them; during the call every SCM key,
\* DRL target and removed instruction is a value of the function as this call
\* found it or an instruction this call has created.
C13_ResetPerFunction ==
  /\ (pc \notin {"idle", "done"} /\ last = 0 /\ usedIt = 1 /\ index = 1
      /\ Len(insts) = Len(orig.insts)) =>
       (m_SCM = <<>> /\ m_DRL = <<>> /\ m_usedVectors = <<>> /\ m_removedInsts = {})
  /\ pc \notin {"idle", "done"} =>
       /\ \A n \in m_removedInsts : InBody(orig, n) \/ n > Len(orig.insts)
       /\ \A v \in DOMAIN m_SCM : IsInst(v) => (InBody(orig, v[2]) \/ v[2] > Len(orig.insts))
       /\ \A j \in 1..Len(m_DRL) : InBody(orig, m_DRL[j].unresolvedInst[2])
       /\ \A j \in 1..Len(m_usedVectors) :
            IsInst(m_usedVectors[j]) =>
              (InBody(orig, m_usedVectors[j][2]) \/ m_usedVectors[j][2] > Len(orig.insts))

\* the traversal of a second call is about to start: nothing is registered,
\* though the first call removed instructions, resolved placeholders and left
\* its lanes in the pooled block that the reset keeps
C13_Witness ==
  /\ runs = 2 /\ pc = "traverse" /\ last = 0
  /\ m_SCM = <<>> /\ m_removedInsts = {}
  /\ freed # {} /\ Len(body) < Len(insts)
  /\ Len(m_SCMArrays[1][1].scalarValues) = W /\ m_SCMArrays[1][1].scalarValues[W] # NULL

\* the instructions the pass has inserted lie before the traversal cursor
InsertedBeforeCursor ==
  (pc = "traverse") =>
    \A p \in 1..Len(body) : body[p] > Len(orig.insts) => p < PosOf(Cur, sI)

\* a traversal step dispatches an instruction the function had when
\* runOnFunction was entered, and moves the cursor to the one that followed it
\* then
C14_Step ==
  /\ pc = "traverse" =>
       /\ InBody(orig, sI) /\ last' = sI
       /\ sI' = IF PosOf(orig, sI) = Len(orig.body) THEN 0
                ELSE orig.body[PosOf(orig, sI) + 1]
  /\ (runs' # runs /\ pc' = "traverse") => sI' = body[1]

\* C14: during the traversal no instruction inserted by the pass is
\* dispatched: every inserted instruction lies before the cursor, and each
\* instruction the function had at the start is dispatched exactly once, in
\* program order.
C14_NoInsertedDispatched == []InsertedBeforeCursor /\ [][C14_Step]_vars

\* an instruction that the deletion loop will leave in the function has an
\* instruction of the removed set as an operand
LiveUseOfRemoved ==
  \E p \in 1..Len(body) :
    /\ body[p] \notin m_removedInsts
    /\ \E k \in 1..Len(insts[body[p]].ops) :
         LET v == insts[body[p]].ops[k]
         IN IsInst(v) /\ v[2] \in m_removedInsts

\* C15: when the deletion loop starts, no instruction that survives the pass
\* has an instruction of the removed set as an operand, so that the
\* replacement of the remaining uses by undef rewrites operands of deleted
\* instructions only.
C15_NoSurvivingUse ==
  pc = "delete" => ~LiveUseOfRemoved

\* the target of the DRL entry that the next resolution step processes, its
\* width, and the lanes its SCM entry holds (NULL: none)
Target == m_DRL[index].unresolvedInst
TargetLanes ==
  IF IsResolved(Cur, Target) THEN EntryLanes(Cur, Target, WidthOf(insts, Target))
  ELSE [i \in 1..WidthOf(insts, Target) |-> NULL]
\* the lanes of the target that are unset or placeholders
Unsettled == {i \in 1..WidthOf(insts, Target) : TargetLanes[i] = NULL \/ IsDummy(TargetLanes[i])}

\* the value x is left alone by the deletion loop: it is no placeholder, no
\* instruction of the removed set, and it computes after the deletion what
\* it computes before
Lasting(x) ==
  /\ ~IsDummy(x) /\ x # NULL
  /\ IsInst(x) => x[2] \notin m_removedInsts
  /\ Term(eraseRemovedInsts(Cur).insts, x, 1) = Term(insts, x, 1)

\* the state after the resolution of a DRL entry whose target was v, with
\* placeholders d, the target's lanes having been l and the instruction table
\* t: the lanes that were set and no placeholders are kept, each other lane is
\* a new extractelement of that lane of v placed after v, and every operand
\* that was placeholder i is lane i of the entry
C16_Resolved(v, d, l, t) ==
  LET w == WidthOf(t, v)
      e == Entry(Cur, v).scalarValues
      need == {i \in 1..w : l[i] = NULL \/ IsDummy(l[i])}
  IN /\ IsResolved(Cur, v) /\ Len(e) = w
     /\ Len(insts) = Len(t) + Cardinality(need)
     /\ \A i \in 1..w :
          IF i \in need
          THEN /\ IsInst(e[i]) /\ e[i][2] > Len(t) /\ InBody(Cur, e[i][2])
               /\ insts[e[i][2]].op = "extractelement"
               /\ insts[e[i][2]].ops = <<v, ConstInt(i - 1)>>
               /\ insts[e[i][2]].blk = insts[v[2]].blk
               /\ PosOf(Cur, e[i][2]) > PosOf(Cur, v[2])
          ELSE e[i] = l[i]
     /\ \A i, j \in need : i # j => e[i] # e[j]
     /\ \A m \in 1..Len(t) : \A k \in 1..Len(t[m].ops) :
          insts[m].ops[k] =
            IF \E i \in 1..w : t[m].ops[k] = d[i]
            THEN e[CHOOSE i \in 1..w : t[m].ops[k] = d[i]]
            ELSE t[m].ops[k]
     /\ \A i \in 1..w : Lasting(e[i])

\* C16: the resolution of a DRL entry replaces placeholder i by a value that
\* computes lane i of the target: the lane of the target's SCM entry when the
\* entry is resolved and holds no placeholder; else extractelements of the
\* target are created after it for exactly the lanes that are unset or
\* placeholders, stored in the entry and used; also when the target was
\* itself decomposed and removed from a source that was a forward reference.
C16_DRLResolution ==
  [][pc = "resolve" =>
       \E v \in {Target} : \E d \in {m_DRL[index].dummyVals} :
         \E l \in {TargetLanes} : \E t \in {insts} : C16_Resolved(v, d, l, t)']_vars

\* C17: when a DRL entry is processed, no lane of its target's SCM entry is a
\* placeholder that the processing of an earlier entry has destroyed.
C17_NoDestroyedPlaceholder ==
  pc = "resolve" => \A i \in 1..Len(TargetLanes) : TargetLanes[i] \notin freed

\* a step before the deletion loop, within one call of runOnFunction
BeforeDeletion == runs' = runs /\ pc # "delete"

\* no instruction leaves the function, the removed set only grows and its
\* instructions are in the function, and what is destroyed is a placeholder
C18_Deferred ==
  /\ \A n \in 1..Len(insts) : InBody(Cur, n) => InBody(Cur, n)'
  /\ m_removedInsts \subseteq m_removedInsts'
  /\ \A n \in m_removedInsts' : InBody(Cur, n)'
  /\ freed \subseteq freed' /\ \A x \in freed' : IsDummy(x)

\* the instructions of the removed set keep their operands and their users
C18_Untouched ==
  \A n \in m_removedInsts :
    /\ insts'[n].ops = insts[n].ops
    /\ \A m \in 1..Len(insts) : \A k \in 1..Len(insts[m].ops) :
         insts[m].ops[k] = Inst(n) => insts'[m].ops[k] = Inst(n)

\* an operand changes only by replaceAllUsesWith: every use of the value it
\* was becomes a use of the value it is
C18_Redirected ==
  \A m \in 1..Len(insts) :
    /\ Len(insts'[m].ops) = Len(insts[m].ops)
    /\ \A k \in 1..Len(insts[m].ops) :
         insts'[m].ops[k] # insts[m].ops[k] =>
           /\ IsInst(insts[m].ops[k]) \/ IsDummy(insts[m].ops[k])
           /\ \A m2 \in 1..Len(insts) : \A k2 \in 1..Len(insts[m2].ops) :
                insts[m2].ops[k2] = insts[m].ops[k] => insts'[m2].ops[k2] = insts'[m].ops[k]

\* C18 (as stated): before the deletion loop no instruction is deleted from
\* the function; an instruction of the removed set stays in the function
\* with its operands and its users as they were; only placeholders are
\* destroyed.
C18_RemovedIntact ==
  [][BeforeDeletion => (C18_Deferred /\ C18_Untouched)]_vars

\* C18 (amended): before the deletion loop no instruction is deleted from
\* the function and only placeholders are destroyed; an instruction of the
\* removed set stays in the function, and its operands and its uses change
\* only when all the uses of a value are redirected at once (the uses of an
\* extractelement to a lane, of a removed vector to the rebuilt vector, of a
\* placeholder to the resolved lane).
C18_DeferredDeletion ==
  [][BeforeDeletion => (C18_Deferred /\ C18_Redirected)]_vars

\* the deletion loop is about to start: a removed instruction is still in the
\* function, an instruction that used it and stays uses another value now,
\* and placeholders have been destroyed
C18_Witness ==
  /\ pc = "delete" /\ freed # {}
  /\ \E n \in m_removedInsts : \E m \in 1..Len(orig.insts) : \E k \in 1..Len(insts[m].ops) :
       /\ InBody(Cur, n) /\ InBody(Cur, m) /\ m \notin m_removedInsts
       /\ orig.insts[m].ops[k] = Inst(n) /\ insts[m].ops[k] # Inst(n)

\* the vector values obtainScalarizedValues may be called on
VectorValues ==
  {Arg(1), Undef(W), ConstVec(W)} \cup {Inst(body[p]) : p \in {q \in 1..Len(body) : insts[body[q]].w > 0}}

\* the call has changed neither the function nor the SCM
NothingInserted(r) ==
  /\ r.insts = insts /\ r.body = body
  /\ r.scm = m_SCM /\ r.arrays = m_SCMArrays /\ r.loc = m_SCMArrayLocation

\* what obtainScalarizedValues has returned and done, r being the state it
\* leaves when called on v in the current state
C19_Lanes(v, r) ==
  LET w == WidthOf(insts, v)
  IN /\ Len(r.ret) = w
     /\ r.used = m_usedVectors /\ r.removed = m_removedInsts /\ r.freed = freed
     /\ IF IsResolved(Cur, v)
        THEN /\ r.ret = Entry(Cur, v).scalarValues
             /\ NothingInserted(r) /\ r.drl = m_DRL
        ELSE IF IsUndef(v)
        THEN /\ \A i \in 1..w : r.ret[i] = Undef(0)
             /\ NothingInserted(r) /\ r.drl = m_DRL
        ELSE IF IsConstant(v)
        THEN /\ \A i \in 1..w : r.ret[i] = ConstElem(w, i - 1)
             /\ NothingInserted(r) /\ r.drl = m_DRL
        ELSE IF IsInst(v) /\ ~HasEntry(Cur, v)
        THEN /\ \A i \in 1..w :
                  /\ IsDummy(r.ret[i]) /\ r.ret[i] \notin freed
                  /\ ~UsedIn(insts, body, r.ret[i])
                  /\ \A j \in 1..Len(m_DRL) : r.ret[i] \notin DummiesOf(j)
                  /\ \A k \in 1..w : k # i => r.ret[k] # r.ret[i]
             /\ NothingInserted(r)
             /\ r.drl = Append(m_DRL, [unresolvedInst |-> v, dummyVals |-> r.ret])
        ELSE /\ Len(r.insts) = Len(insts) + w /\ Len(r.body) = Len(body) + w
             /\ \A i \in 1..w :
                  /\ r.ret[i] = Inst(Len(insts) + i) /\ InBody(r, Len(insts) + i)
                  /\ r.insts[Len(insts) + i].op = "extractelement"
                  /\ r.insts[Len(insts) + i].ops = <<v, ConstInt(i - 1)>>
             /\ \A m \in 1..Len(insts) : r.insts[m] = insts[m]
             /\ IsResolved(r, v) /\ Entry(r, v).scalarValues = r.ret
             /\ ~Entry(r, v).isOriginalVectorRemoved
             /\ r.drl = m_DRL

\* C19: obtainScalarizedValues(v) takes the lanes of v from, in this order:
\* the resolved SCM entry of v; scalar undefs if v is undef; the elements of
\* v if v is another constant; fresh placeholders and a new DRL entry for v
\* if v is an instruction with no SCM entry; else extractelements of v, kept
\* in a non-removed SCM entry.  All but the last insert no instruction, and
\* the placeholder case makes no SCM entry.
C19_ResolveLanes ==
  pc = "traverse" =>
    \A v \in VectorValues : C19_Lanes(v, obtainScalarizedValues(Cur, v))

\* an extractelement has just been dispatched whose source is a later
\* instruction: the source has a DRL entry and no SCM entry; an instruction
\* with an unresolved SCM entry is there to be broken down
C19_Witness ==
  /\ pc = "traverse" /\ IsExtract(last, TRUE)
  /\ \E j \in 1..Len(m_DRL) :
       m_DRL[j].unresolvedInst = insts[last].ops[1] /\ ~HasEntry(Cur, insts[last].ops[1])
  /\ \E v \in VectorValues : IsInst(v) /\ HasEntry(Cur, v) /\ ~IsResolved(Cur, v)

\* the extractelements of lane constants of v that this call of runOnFunction
\* has created in table t
ExtractsOf(t, v) ==
  {m \in (Len(orig.insts) + 1)..Len(t) :
     t[m].op = "extractelement" /\ t[m].ops[1] = v /\ IsConstantInt(t[m].ops[2])}

\* the lanes of v are cached as they are by the last branch of
\* obtainScalarizedValues: one extractelement of v per lane, v not removed
CachedBreakdown(v) ==
  /\ IsResolved(Cur, v) /\ ~Entry(Cur, v).isOriginalVectorRemoved
  /\ Len(Entry(Cur, v).scalarValues) = WidthOf(insts, v)
  /\ \A i \in 1..WidthOf(insts, v) :
       LET x == Entry(Cur, v).scalarValues[i]
       IN IsInst(x) /\ insts[x[2]].op = "extractelement"
          /\ insts[x[2]].ops = <<v, ConstInt(i - 1)>>

\* the handler of instruction n obtains the lanes of its vector operands
ObtainsLanes(n) ==
  /\ n # 0 /\ n \notin m_removedInsts /\ IsDecomposable(insts, n)
  /\ insts[n].op = "phi" => insts[n].w > 0

\* the dispatch of n finds the operand v neither resolved, nor constant, nor a
\* forward reference: v is the argument or an instruction that has an SCM
\* entry by the time its lanes are asked for
TakesLastBranch(n, v) ==
  /\ WidthOf(insts, v) > 0 /\ ~IsResolved(Cur, v) /\ ~IsConstant(v)
  /\ IsInst(v) => (HasEntry(Cur, v) \/ (v = Inst(n) /\ insts[n].op = "phi"))

\* a dispatch that breaks v down leaves the breakdown cached; a cached
\* breakdown stays as it is and no other extractelement of v is created
C20_Step ==
  /\ (pc = "traverse" /\ ObtainsLanes(sI)) =>
       \A k \in 1..Len(insts[sI].ops) :
         \E v \in {insts[sI].ops[k]} : TakesLastBranch(sI, v) => CachedBreakdown(v)'
  /\ BeforeDeletion =>
       \A v \in VectorValues :
         CachedBreakdown(v) =>
           /\ Entry(Cur, v)' = Entry(Cur, v)
           /\ ExtractsOf(insts', v) \subseteq ExtractsOf(insts, v)

\* C20: the extractelements of a vector value that is not a forward reference
\* are created at most once in a call: once obtainScalarizedValues has broken
\* it down and cached the lanes, every later request and the resolution of a
\* DRL entry for it find these lanes and create nothing, so that at most
\* width(v) extractelements of v are created.
C20_BreakdownOnce ==
  /\ [][C20_Step]_vars
  /\ [](\A v \in VectorValues :
          ~IsConstant(v) => Cardinality(ExtractsOf(insts, v)) <= WidthOf(insts, v))

\* the instructions that this call of runOnFunction has created and that are
\* part of the function
Created == {m \in (Len(orig.insts) + 1)..Len(insts) : InBody(Cur, m)}

\* in every basic block the PHIs come before every other instruction
PHIsFirst ==
  \A p \in 2..Len(body) :
    (OpAt(Cur, p) = "phi" /\ BlkAt(Cur, p - 1) = BlkAt(Cur, p)) => OpAt(Cur, p - 1) = "phi"

\* a created extractelement of an instruction stands in the block of that
\* instruction, after it; one of the argument stands at the head of the function
ExtractsAfterSource ==
  \A m \in Created :
    insts[m].op = "extractelement" =>
      \E v \in {insts[m].ops[1]} :
        /\ (IsInst(v) /\ InBody(Cur, v[2])) =>
             insts[m].blk = insts[v[2]].blk /\ PosOf(Cur, m) > PosOf(Cur, v[2])
        /\ v = Arg(1) =>
             insts[m].blk = 0 /\ \A q \in 1..PosOf(Cur, m) : BlkAt(Cur, q) = 0

\* a created insertelement stands after the vector and the lane it joins, when
\* they are instructions of its block
ChainsAfterSource ==
  \A m \in Created :
    insts[m].op = "insertelement" =>
      \A k \in 1..2 :
        \E x \in {insts[m].ops[k]} :
          (IsInst(x) /\ InBody(Cur, x[2]) /\ insts[x[2]].blk = insts[m].blk) =>
            PosOf(Cur, x[2]) < PosOf(Cur, m)

\* C21: in every state every basic block keeps its PHIs before its other
\* instructions: the lane PHIs are created inside the PHI cluster, and every
\* created extractelement and every reassembled chain of insertelements
\* stands after the definition of its source and after the PHIs of the block,
\* never between two PHIs.
C21_PHIClusterKept ==
  PHIsFirst /\ ExtractsAfterSource /\ ChainsAfterSource

\* the lanes of a PHI that is followed by another PHI have been extracted, and
\* a removed PHI has been reassembled
C21_Witness ==
  /\ \E m \in Created :
       /\ insts[m].op = "extractelement" /\ IsInst(insts[m].ops[1])
       /\ \E n \in {insts[m].ops[1][2]} :
            /\ insts[n].op = "phi" /\ InBody(Cur, n)
            /\ PosOf(Cur, n) < Len(body)
            /\ OpAt(Cur, PosOf(Cur, n) + 1) = "phi"
            /\ BlkAt(Cur, PosOf(Cur, n) + 1) = insts[n].blk
  /\ \E m \in Created : insts[m].op = "phi"

\* value v, of the used-whole set, is one that Reassembly has to rebuild
NeedsReassembly(v) ==
  ~IsUndef(v) /\ HasEntry(Cur, v) /\ Entry(Cur, v).isOriginalVectorRemoved

\* the step has created the instructions n0+1 .. n0+w at position p of the
\* layout, and nothing else
CreatedAt(n0, w, p) ==
  /\ Len(insts') = n0 + w
  /\ p \in 1..(Len(body) + 1)
  /\ body' = SubSeq(body, 1, p - 1) \o [i \in 1..w |-> n0 + i] \o SubSeq(body, p, Len(body))

\* position p is where the chain of instruction n belongs: before n, or, when
\* n is a PHI, after the PHIs of its block and before its other instructions
ChainPosition(n, p) ==
  IF insts[n].op = "phi"
  THEN /\ \A q \in 1..Len(body) :
            (BlkAt(Cur, q) = insts[n].blk /\ OpAt(Cur, q) = "phi") => q < p
       /\ \A q \in 1..(p - 1) : BlkAt(Cur, q) <= insts[n].blk
       /\ \A q \in p..Len(body) : BlkAt(Cur, q) >= insts[n].blk
  ELSE p = PosOf(Cur, n)

\* one step of resolveVectorValues, on the value the iterator is at
C22_Step ==
  pc = "reassemble" =>
    \E v \in {m_usedVectors[usedIt]} :
      IF ~NeedsReassembly(v)
      THEN insts' = insts /\ body' = body /\ m_SCM' = m_SCM /\ m_SCMArrays' = m_SCMArrays
      ELSE \E n0 \in {Len(insts)}, w \in {WidthOf(insts, v)},
              lanes \in {Entry(Cur, v).scalarValues} :
             /\ IsInst(v) /\ w > 0 /\ Len(lanes) = w
             /\ \E p \in 1..(Len(body) + 1) : CreatedAt(n0, w, p) /\ ChainPosition(v[2], p)
             /\ \A i \in 1..w :
                  /\ insts'[n0 + i].op = "insertelement"
                  /\ insts'[n0 + i].w = w
                  /\ insts'[n0 + i].blk = insts[v[2]].blk
                  /\ insts'[n0 + i].ops =
                       <<IF i = 1 THEN Undef(w) ELSE Inst(n0 + i - 1), lanes[i], ConstInt(i - 1)>>
             /\ \A m \in 1..n0 :
                  /\ [insts'[m] EXCEPT !.ops = insts[m].ops] = insts[m]
                  /\ Len(insts'[m].ops) = Len(insts[m].ops)
                  /\ \A k \in 1..Len(insts[m].ops) :
                       insts'[m].ops[k] =
                         IF insts[m].ops[k] = v THEN Inst(n0 + w) ELSE insts[m].ops[k]

\* C22: for each value of the used-whole set Reassembly does nothing when the
\* value is undef, has no SCM entry, or has an entry not marked removed;
\* otherwise it creates exactly width insertelements chained from an undef
\* vector, the i-th placing lane i of the entry at index i, at the original
\* instruction (after the PHIs of the block when the original is a PHI), and
\* redirects every use of the original vector to the last of them.
C22_Reassembly == [][C22_Step]_vars

\* a removed PHI of the used-whole set has been passed by the iterator, a chain
\* has been built and a user has been redirected to its last insertelement
C22_Witness ==
  /\ pc \in {"reassemble", "resolve", "delete"} /\ usedIt > 1
  /\ \E j \in 1..(usedIt - 1) :
       \E v \in {m_usedVectors[j]} :
         IsInst(v) /\ insts[v[2]].op = "phi" /\ v[2] \in m_removedInsts
  /\ \E m \in Created :
       /\ insts[m].op = "insertelement" /\ insts[m].ops[3] = ConstInt(W - 1)
       /\ \E u \in 1..Len(orig.insts) :
            InBody(Cur, u) /\ \E k \in 1..Len(insts[u].ops) : insts[u].ops[k] = Inst(m)

\* the first insertelements of the chains created in this call
ChainHeads ==
  {m \in Created :
     insts[m].op = "insertelement" /\ IsUndef(insts[m].ops[1]) /\ insts[m].ops[3] = ConstInt(0)}

\* the removed vectors that resolveVectorValues has gone past
Reassembled ==
  {v \in {m_usedVectors[j] : j \in 1..(usedIt - 1)} : IsInst(v) /\ v[2] \in m_removedInsts}

\* rebuilding v registers the rebuilt vector with the lanes of v, not removed,
\* and leaves no use of v
C23_Step ==
  pc = "reassemble" =>
    \E v \in {m_usedVectors[usedIt]}, lanes \in {IF HasEntry(Cur, m_usedVectors[usedIt])
                                                 THEN Entry(Cur, m_usedVectors[usedIt]).scalarValues
                                                 ELSE <<>>} :
      NeedsReassembly(v) =>
        \E a \in {Inst(Len(insts'))} :
          /\ Len(insts') > Len(insts)
          /\ ~HasEntry(Cur, a) /\ HasEntry(Cur, a)'
          /\ Entry(Cur, a)' = [scalarValues |-> lanes, isOriginalVectorRemoved |-> FALSE]
          /\ \A m \in 1..Len(insts') : \A k \in 1..Len(insts'[m].ops) : insts'[m].ops[k] # v

\* C23: a removed vector is rebuilt at most once in a call of runOnFunction:
\* the rebuilt vector is registered as a fresh SCM entry, not removed, holding
\* the same lanes; a value used whole by several instructions is in the
\* used-whole set once, and all of them use the one chain.
C23_ReassembledOnce ==
  /\ [][C23_Step]_vars
  /\ [](\A j, k \in 1..Len(m_usedVectors) : m_usedVectors[j] = m_usedVectors[k] => j = k)
  /\ [](pc \in {"reassemble", "resolve", "delete"} =>
          Cardinality(ChainHeads) <= Cardinality(Reassembled))

\* a removed vector used whole by two instructions has been rebuilt, and both
\* use the last insertelement of the one chain
C23_Witness ==
  /\ pc \in {"resolve", "delete"} /\ Cardinality(ChainHeads) = 1
  /\ \E m \in Created :
       /\ insts[m].op = "insertelement"
       /\ \E u1, u2 \in 1..Len(orig.insts) :
            /\ u1 # u2 /\ InBody(Cur, u1) /\ InBody(Cur, u2)
            /\ insts[u1].op = "call" /\ insts[u2].op = "call"
            /\ insts[u1].ops = <<Inst(m)>> /\ insts[u2].ops = <<Inst(m)>>

\* the vector-typed operands of instruction n
VectorOperands(n) ==
  {insts[n].ops[k] : k \in {k \in 1..Len(insts[n].ops) : WidthOf(insts, insts[n].ops[k]) > 0}}

\* the dispatch of instruction n hands it to recoverNonScalarizableInst
IsRecovery(n) ==
  n # 0 /\ n \notin m_removedInsts /\ ~IsDecomposable(insts, n)

\* the effect of handling the instruction under the iterator as Recovery
C24_Step ==
  (pc = "traverse" /\ IsRecovery(sI)) =>
    \E n \in {sI}, had \in {HasEntry(Cur, Inst(sI))} :
      /\ insts' = insts /\ body' = body
      /\ m_removedInsts' = m_removedInsts /\ m_DRL' = m_DRL /\ dctr' = dctr
      /\ \A v \in DOMAIN m_SCM : HasEntry(Cur, v)' /\ Entry(Cur, v)' = Entry(Cur, v)
      /\ IF insts[n].w > 0
         THEN /\ DOMAIN m_SCM' = DOMAIN m_SCM \cup {Inst(n)}
              /\ ~had => /\ Entry(Cur, Inst(n))'.scalarValues[1] = NULL
                         /\ ~Entry(Cur, Inst(n))'.isOriginalVectorRemoved
         ELSE DOMAIN m_SCM' = DOMAIN m_SCM
      /\ SubSeq(m_usedVectors', 1, Len(m_usedVectors)) = m_usedVectors
      /\ {m_usedVectors'[j] : j \in 1..Len(m_usedVectors')} =
           {m_usedVectors[j] : j \in 1..Len(m_usedVectors)} \cup VectorOperands(n)

\* C24: handling an instruction as Recovery creates an empty SCM entry, not
\* marked removed, for it when its result is a vector (an entry it has already
\* is left as it is), adds every vector operand (of a call: every vector
\* argument) to the used-whole set, creates no instruction and adds nothing
\* to the removed set or to the DRL.
C24_Recovery == [][C24_Step]_vars

\* an instruction with a vector result and a vector operand has just been
\* handled as Recovery
C24_Witness ==
  /\ last # 0 /\ IsRecovery(last) /\ insts[last].w > 0
  /\ HasEntry(Cur, Inst(last)) /\ ~IsResolved(Cur, Inst(last))
  /\ \E v \in VectorOperands(last) :
       IsInst(v) /\ \E j \in 1..Len(m_usedVectors) : m_usedVectors[j] = v

\* the opcodes the dispatcher always hands to recoverNonScalarizableInst: call,
\* alloca, getelementptr and every opcode that has no case in its switch
AlwaysRecovered(op) ==
  op \notin BinaryOps \cup CmpOps \cup CastOps
            \cup {"phi", "select", "extractelement", "insertelement", "shufflevector",
                  "load", "store"}

\* the last insertelement of a chain built by Reassembly in this call
IsReassembled(x) ==
  /\ IsInst(x) /\ x[2] \in Created
  /\ insts[x[2]].op = "insertelement"
  /\ insts[x[2]].ops[3] = ConstInt(insts[x[2]].w - 1)

\* C25: calls, allocas, getelementptrs and the instructions of an opcode the
\* dispatcher has no case for are always handled as Recovery: such an
\* instruction stays in the function and out of the removed set, and once
\* the pass has returned each of its vector operands is the original value,
\* still part of the function, or a reassembled vector.
C25_AlwaysRecovery ==
  \A n \in 1..Len(orig.insts) :
    (InBody(orig, n) /\ AlwaysRecovered(orig.insts[n].op)) =>
      /\ InBody(Cur, n) /\ n \notin m_removedInsts
      /\ insts[n].op = orig.insts[n].op /\ Len(insts[n].ops) = Len(orig.insts[n].ops)
      /\ pc = "done" =>
           \A k \in 1..Len(insts[n].ops) :
             WidthOf(orig.insts, orig.insts[n].ops[k]) > 0 =>
               \/ insts[n].ops[k] = orig.insts[n].ops[k] /\ Survives(insts[n].ops[k])
               \/ IsReassembled(insts[n].ops[k])

\* the pass has returned from a function with a getelementptr whose vector
\* operand has been reassembled and another always-recovered instruction
C25_Witness ==
  /\ pc = "done"
  /\ \E n \in 1..Len(orig.insts) :
       /\ InBody(orig, n) /\ insts[n].op = "getelementptr"
       /\ IsInst(orig.insts[n].ops[1]) /\ IsReassembled(insts[n].ops[1])
  /\ \E n \in 1..Len(orig.insts) :
       InBody(orig, n) /\ insts[n].op \in {"fneg", "alloca"}

\* instruction n of table t is a vector PHI that the pass decomposes
IsDecomposedPHI(t, n) ==
  n # 0 /\ t[n].op = "phi" /\ t[n].w > 0 /\ ~IsVMEPhi(t, n)

\* the state left by the dispatch of the vector PHI `last`: its entry holds w
\* distinct scalar PHIs standing before it, lane PHI i taking, for every edge
\* j in order, lane i of incoming value j from incoming block j
C26_Dispatched ==
  LET PI == insts[last]
      e == Entry(Cur, Inst(last))
  IN /\ last \in m_removedInsts
     /\ IsResolved(Cur, Inst(last)) /\ e.isOriginalVectorRemoved
     /\ Len(e.scalarValues) = PI.w
     /\ \A i \in 1..PI.w :
          LET x == e.scalarValues[i]
          IN /\ IsInst(x) /\ x[2] \in Created
             /\ PosOf(Cur, x[2]) = PosOf(Cur, last) - PI.w + i - 1
             /\ insts[x[2]].op = "phi" /\ insts[x[2]].w = 0
             /\ insts[x[2]].blk = PI.blk
             /\ insts[x[2]].aux = PI.aux
             /\ Len(insts[x[2]].ops) = Len(PI.ops)
             /\ \A j \in 1..Len(PI.ops) : IsLaneOf(insts[x[2]].ops[j], PI.ops[j], i)

\* the dispatch of a vector PHI that is not kept whole creates exactly w PHIs,
\* which are its lanes; the dispatch of a scalar PHI changes nothing
C26_Step ==
  /\ (pc = "traverse" /\ sI \notin m_removedInsts /\ IsDecomposedPHI(insts, sI)) =>
       /\ Cardinality({m \in (Len(insts) + 1)..Len(insts') : insts'[m].op = "phi"})
            = insts[sI].w
       /\ insts'[sI] = insts[sI]
       /\ last' = sI
       /\ C26_Dispatched'
  /\ (pc = "traverse" /\ insts[sI].op = "phi" /\ insts[sI].w = 0) =>
       /\ insts' = insts /\ body' = body /\ m_SCM' = m_SCM /\ m_SCMArrays' = m_SCMArrays
       /\ m_removedInsts' = m_removedInsts /\ m_DRL' = m_DRL
       /\ m_usedVectors' = m_usedVectors

\* C26: a vector PHI of width w with n incoming edges that is not kept whole
\* for a VME send is replaced by exactly w scalar PHIs, lane PHI i having n
\* incoming pairs in the order of the edges, the pair of edge j being lane i
\* of incoming value j and incoming block j; the PHI is put in the removed
\* set.  A scalar PHI is left as it is.
C26_PHIDecomposition == [][C26_Step]_vars

\* C27: when a decomposed vector PHI lists itself as an incoming value, then
\* once the pass has returned lane PHI i receives on that edge lane PHI i
\* itself, or a value that computes the same, and neither an extraction from
\* the deleted PHI nor undef, whether another PHI follows in the block or not.
C27_SelfReferencingPHI ==
  pc = "done" =>
    \A n \in 1..Len(orig.insts) :
      (InBody(orig, n) /\ IsDecomposedPHI(orig.insts, n)) =>
        \A k \in 1..Len(orig.insts[n].ops) :
          orig.insts[n].ops[k] = Inst(n) =>
            \A i \in 1..orig.insts[n].w :
              LET x == Entry(Cur, Inst(n)).scalarValues[i]
                  y == insts[x[2]].ops[k]
              IN /\ IsInst(x) /\ InBody(Cur, x[2]) /\ insts[x[2]].op = "phi"
                 /\ ~IsUndef(y)
                 /\ IsInst(y) => ~IsUndef(insts[y[2]].ops[1])
                 /\ y = x \/ Term(insts, y, 1) = Term(insts, x, 1)

\* instruction n of table t is an insertelement; const: with a constant index
IsInsert(t, n, const) ==
  n # 0 /\ t[n].op = "insertelement" /\ (IsConstantInt(t[n].ops[3]) <=> const)

\* the state left by the dispatch of the insertelement `last`, whose index is
\* a constant: the lanes of its entry are those of the source, but for the
\* lane of the index, which is the inserted scalar
C28_Dispatched ==
  LET II == insts[last]
      e == Entry(Cur, Inst(last))
  IN /\ last \in m_removedInsts /\ InBody(Cur, last)
     /\ IsResolved(Cur, Inst(last)) /\ e.isOriginalVectorRemoved
     /\ Len(e.scalarValues) = II.w
     /\ \A i \in 1..II.w :
          IF i = II.ops[3][2] + 1 THEN e.scalarValues[i] = II.ops[2]
          ELSE IsLaneOf(e.scalarValues[i], II.ops[1], i)

\* the dispatch of an insertelement
C28_Step ==
  /\ (pc = "traverse" /\ sI \notin m_removedInsts /\ IsInsert(insts, sI, TRUE)) =>
       /\ last' = sI
       /\ insts'[sI] = insts[sI]
       /\ C28_Dispatched'
       /\ (IsUndef(insts[sI].ops[1]) \/ IsResolved(Cur, insts[sI].ops[1])) =>
            insts' = insts /\ body' = body
       /\ \A m \in (Len(insts) + 1)..Len(insts') : insts'[m].op # "insertelement"
  /\ (pc = "traverse" /\ sI \notin m_removedInsts /\ IsInsert(insts, sI, FALSE)) =>
       \E n \in {sI} :
         /\ insts' = insts /\ body' = body
         /\ m_removedInsts' = m_removedInsts /\ m_DRL' = m_DRL
         /\ HasEntry(Cur, Inst(n))' /\ ~IsResolved(Cur, Inst(n))'
         /\ \E j \in 1..Len(m_usedVectors') : m_usedVectors'[j] = insts[n].ops[1]

\* C28: dispatching an insertelement with the constant index k produces an
\* SCM entry, marked removed, whose lanes are the lanes of the source vector
\* (scalar undefs when the source is an undef vector) with lane k replaced by
\* the inserted scalar; no instruction is created when the source is undef or
\* already decomposed; the insertelement is put in the removed set.  With an
\* index that is no constant it is handled as Recovery and stays.
C28_InsertElement ==
  /\ [][C28_Step]_vars
  /\ [](\A n \in 1..Len(orig.insts) :
          (InBody(orig, n) /\ IsInsert(orig.insts, n, FALSE)) =>
            InBody(Cur, n) /\ n \notin m_removedInsts)

\* an insertelement into a decomposed vector has just been dispatched, in a
\* function that also has an insertelement with an index that is no constant
C28_Witness ==
  /\ last # 0 /\ IsInsert(insts, last, TRUE) /\ last \in m_removedInsts
  /\ IsInst(insts[last].ops[1]) /\ insts[insts[last].ops[1][2]].op = "add"
  /\ insts[last].ops[1][2] \in m_removedInsts
  /\ \E n \in 1..Len(orig.insts) : IsInsert(insts, n, FALSE)

\* x and y are placeholders of the same lane of the same forward reference
SamePlaceholder(x, y) ==
  /\ IsDummy(x) /\ IsDummy(y) /\ x[3] = y[3]
  /\ \E j, k \in 1..Len(m_DRL) :
       /\ m_DRL[j].unresolvedInst = m_DRL[k].unresolvedInst
       /\ m_DRL[j].dummyVals[x[3] + 1] = x /\ m_DRL[k].dummyVals[y[3] + 1] = y

\* the two lanes are the same value: the same Value object, or (standIn) two
\* placeholders that stand for the same lane
SameLane(x, y, standIn) == x = y \/ (standIn /\ SamePlaceholder(x, y))

\* the values a lane of a decomposition may be
LaneValues ==
  {Arg(2), Undef(0)} \cup {Inst(m) : m \in 1..Len(insts)}
  \cup {ConstElem(W, i) : i \in Lanes}
  \cup UNION {{m_DRL[j].dummyVals[i] : i \in 1..Len(m_DRL[j].dummyVals)} : j \in 1..Len(m_DRL)}

\* the state left by the dispatch of the vector select `last`, the table
\* having had n0 instructions before: lane i of its entry is a new select of
\* lane i of the true value and lane i of the false value, on the scalar
\* condition or lane i of the vector condition, when these two lanes differ,
\* and is their common value, with no select, when they are the same
C29_Dispatched(n0, standIn) ==
  LET SI == insts[last]
      e == Entry(Cur, Inst(last))
      IsNew(x) == IsInst(x) /\ x[2] > n0 /\ insts[x[2]].op = "select"
  IN /\ last \in m_removedInsts
     /\ IsResolved(Cur, Inst(last)) /\ e.isOriginalVectorRemoved
     /\ Len(e.scalarValues) = SI.w
     /\ \A i \in 1..SI.w :
          LET x == e.scalarValues[i]
          IN IF IsNew(x)
             THEN /\ InBody(Cur, x[2]) /\ PosOf(Cur, x[2]) < PosOf(Cur, last)
                  /\ insts[x[2]].w = 0 /\ Len(insts[x[2]].ops) = 3
                  /\ IF WidthOf(insts, SI.ops[1]) > 0
                     THEN IsLaneOf(insts[x[2]].ops[1], SI.ops[1], i)
                     ELSE insts[x[2]].ops[1] = SI.ops[1]
                  /\ IsLaneOf(insts[x[2]].ops[2], SI.ops[2], i)
                  /\ IsLaneOf(insts[x[2]].ops[3], SI.ops[3], i)
                  /\ ~SameLane(insts[x[2]].ops[2], insts[x[2]].ops[3], standIn)
             ELSE /\ IsLaneOf(x, SI.ops[2], i)
                  /\ \E y \in LaneValues : IsLaneOf(y, SI.ops[3], i) /\ SameLane(x, y, standIn)
     /\ Cardinality({m \in (n0 + 1)..Len(insts) : insts[m].op = "select"})
          = Cardinality({i \in 1..SI.w : IsNew(e.scalarValues[i])})
     /\ \A i, j \in 1..SI.w :
          (i # j /\ IsNew(e.scalarValues[i])) => e.scalarValues[i] # e.scalarValues[j]

\* instruction n of table t is a vector select
IsVectorSelect(t, n) == n # 0 /\ t[n].op = "select" /\ t[n].w > 0

\* C29 as stated, the lanes of a forward reference being the same value
\* whatever placeholder stands for them: dispatching a vector select creates
\* no select for a lane whose true and false lanes are the same value, and
\* exactly one for every other lane.
C29_SelectSameLanes ==
  [][(pc = "traverse" /\ sI \notin m_removedInsts /\ IsVectorSelect(insts, sI)) =>
       \E n0 \in {Len(insts)} : last' = sI /\ C29_Dispatched(n0, TRUE)']_vars

\* C29: dispatching a vector select of width w uses the scalar condition for
\* every lane, or lane i of the decomposition of a vector condition; for each
\* lane whose true lane and false lane, as obtained at the dispatch, are the
\* same Value no select is created and that value is the lane of the result;
\* for every other lane exactly one scalar select is created, so that the
\* number of new selects is the number of lanes whose two inputs differ.  Two
\* placeholders of the same lane of a forward reference are different values.
C29_Select ==
  [][(pc = "traverse" /\ sI \notin m_removedInsts /\ IsVectorSelect(insts, sI)) =>
       \E n0 \in {Len(insts)} : last' = sI /\ C29_Dispatched(n0, FALSE)']_vars

\* a vector select has just been dispatched, one lane of which is a new select
\* and another the common value of the true and the false lane
C29_Witness ==
  /\ last # 0 /\ IsVectorSelect(insts, last) /\ last \in m_removedInsts
  /\ \E i, j \in 1..W :
       LET x == Entry(Cur, Inst(last)).scalarValues[i]
           y == Entry(Cur, Inst(last)).scalarValues[j]
       IN /\ IsInst(x) /\ x[2] \in Created /\ insts[x[2]].op = "select"
          /\ ~(IsInst(y) /\ insts[y[2]].op = "select")

\* instruction n of table t is a bitcast; same: between two vectors of the
\* same lane count
IsBitCast(t, n, same) ==
  /\ n # 0 /\ t[n].op = "bitcast"
  /\ (t[n].w > 0 /\ t[n].w = WidthOf(t, t[n].ops[1])) <=> same

\* the state left by the dispatch of the bitcast `last` when it is decomposed:
\* w new bitcasts, the i-th of lane i of the source, are its lanes
C30_Decomposed(n0) ==
  LET CI == insts[last]
      e == Entry(Cur, Inst(last))
  IN /\ last \in m_removedInsts
     /\ IsResolved(Cur, Inst(last)) /\ e.isOriginalVectorRemoved
     /\ Len(e.scalarValues) = CI.w
     /\ \A i \in 1..CI.w :
          LET x == e.scalarValues[i]
          IN /\ IsInst(x) /\ x[2] > n0 /\ InBody(Cur, x[2])
             /\ insts[x[2]].op = "bitcast" /\ insts[x[2]].w = 0
             /\ Len(insts[x[2]].ops) = 1
             /\ IsLaneOf(insts[x[2]].ops[1], CI.ops[1], i)
     /\ Cardinality({m \in (n0 + 1)..Len(insts) : insts[m].op = "bitcast"}) = CI.w

\* the state left by the dispatch of the bitcast `last` when it is handled as
\* Recovery; was: the used-whole set before
C30_Recovered(was) ==
  /\ InBody(Cur, last) /\ last \notin m_removedInsts
  /\ insts[last].w > 0 => HasEntry(Cur, Inst(last)) /\ ~IsResolved(Cur, Inst(last))
  /\ \A v \in VectorOperands(last) : \E j \in 1..Len(m_usedVectors) : m_usedVectors[j] = v
  /\ {m_usedVectors[j] : j \in 1..Len(m_usedVectors)} = was \cup VectorOperands(last)

\* the dispatch of a bitcast; anySource: the bitcast of a constant vector is
\* taken to be decomposed as that of any other vector
C30_Step(anySource) ==
  (pc = "traverse" /\ sI \notin m_removedInsts /\ insts[sI].op = "bitcast") =>
    \E n0 \in {Len(insts)}, was \in {{m_usedVectors[j] : j \in 1..Len(m_usedVectors)}} :
      /\ last' = sI
      /\ IF IsBitCast(insts, sI, TRUE)
         THEN IF anySource \/ ~IsConstant(insts[sI].ops[1])
              THEN C30_Decomposed(n0)'
              ELSE /\ insts' = insts /\ body' = body /\ m_removedInsts' = m_removedInsts
                   /\ m_usedVectors' = m_usedVectors /\ LeftInPlace(last)'
         ELSE /\ insts' = insts /\ body' = body /\ m_removedInsts' = m_removedInsts
              /\ m_DRL' = m_DRL
              /\ C30_Recovered(was)'

\* C30 as stated: a bitcast is decomposed if and only if its source and its
\* destination are vectors of the same lane count, and handled as Recovery
\* otherwise.
C30_BitCastAnySource == [][C30_Step(TRUE)]_vars

\* C30: a bitcast whose source is not a constant is decomposed if and only if
\* its source and destination types are vectors of the same lane count; a
\* bitcast between vectors of different lane counts, from a vector to a
\* scalar or from a scalar to a vector is handled as Recovery: it stays, its
\* vector result gets an empty SCM entry and its vector operand is registered
\* as used whole.  A bitcast of a constant vector to a vector of the same lane
\* count is left in place, with no new instruction.
C30_BitCast == [][C30_Step(FALSE)]_vars

\* a bitcast between vectors of the same lane count has just been decomposed,
\* in a function that has a bitcast between vectors of different lane counts
\* and one between a vector and a scalar
C30_Witness ==
  /\ last # 0 /\ IsBitCast(insts, last, TRUE) /\ last \in m_removedInsts
  /\ \E n \in 1..Len(orig.insts) :
       IsBitCast(insts, n, FALSE) /\ insts[n].w > 0 /\ WidthOf(insts, insts[n].ops[1]) > 0
  /\ \E n \in 1..Len(orig.insts) :
       IsBitCast(insts, n, FALSE) /\ (insts[n].w = 0 \/ WidthOf(insts, insts[n].ops[1]) = 0)

\* instruction n of table t is a load or a store
IsLoadStore(t, n) == n # 0 /\ t[n].op \in {"load", "store"}
\* the lane count of the data it loads or stores, and the pointer it goes through
DataWidth(t, n) == IF t[n].op = "load" THEN t[n].w ELSE WidthOf(t, t[n].ops[1])
PointerOf(t, n) == IF t[n].op = "load" THEN t[n].ops[1] ELSE t[n].ops[2]

\* the state left by the decomposition of the load or store `last`, the
\* instructions created by its dispatch being those after n0
C31_Decomposed(n0) ==
  LET LS == insts[last]
      w == DataWidth(insts, last)
      new == (n0 + 1)..Len(insts)
      Before(a, b) == PosOf(Cur, a) < PosOf(Cur, b)
  IN /\ last \in m_removedInsts /\ InBody(Cur, last)
     /\ \A m \in new : InBody(Cur, m)
     /\ Cardinality({m \in new : insts[m].op = LS.op}) = w
     /\ \E b \in new, a \in [1..w -> new] :
          /\ insts[b].op = "bitcast" /\ insts[b].w = 0
          /\ insts[b].ops = <<PointerOf(insts, last)>>
          /\ \A i \in 1..w :
               LET g == PointerOf(insts, a[i])
               IN /\ insts[a[i]].op = LS.op /\ insts[a[i]].w = 0
                  /\ IsInst(g) /\ g[2] \in new
                  /\ insts[g[2]].op = "getelementptr"
                  /\ insts[g[2]].ops = <<Inst(b), ConstInt(i - 1)>>
                  /\ Before(b, g[2]) /\ Before(g[2], a[i]) /\ Before(a[i], last)
                  /\ LS.op = "store" => IsLaneOf(insts[a[i]].ops[1], LS.ops[1], i)
          /\ \A i, j \in 1..w : i < j => Before(a[i], a[j])
          /\ LS.op = "load" =>
               /\ IsResolved(Cur, Inst(last))
               /\ Entry(Cur, Inst(last)).isOriginalVectorRemoved
               /\ Entry(Cur, Inst(last)).scalarValues = [i \in 1..w |-> Inst(a[i])]

\* the effect of dispatching the load or store under the iterator
C31_Step ==
  (pc = "traverse" /\ IsLoadStore(insts, sI) /\ sI \notin m_removedInsts) =>
    \E n \in {sI}, n0 \in {Len(insts)} :
      /\ last' = n
      /\ IF m_ScalarizingVectorLDSTType /\ DataWidth(insts, n) > 0
         THEN C31_Decomposed(n0)'
         ELSE /\ insts' = insts /\ body' = body
              /\ m_removedInsts' = m_removedInsts /\ m_DRL' = m_DRL
              /\ \A v \in VectorOperands(n) :
                   \E j \in 1..Len(m_usedVectors') : m_usedVectors'[j] = v
              /\ insts[n].w > 0 =>
                   \E v \in {Inst(n)} : HasEntry(Cur, v)' /\ ~Entry(Cur, v)'.isOriginalVectorRemoved

\* C31: a load or store is decomposed only when the flag
\* m_ScalarizingVectorLDSTType is set and its data is a vector.  Otherwise it
\* is handled as Recovery: nothing is created, it stays in the function and
\* out of the removed set, and its vector operands join the used-whole set.
\* When it is decomposed, the pointer is cast once and the dispatch creates,
\* before the original and in increasing order of lane, for every lane i the
\* address of element i of the cast pointer and one scalar load of it (the
\* lanes of the load's SCM entry, which is marked removed) or one scalar store
\* to it of lane i of the data; the original is put in the removed set.
C31_LoadStore == [][C31_Step]_vars

\* a vector store of the result of a vector load has just been decomposed, as
\* the load was before it
C31_Witness ==
  /\ m_ScalarizingVectorLDSTType /\ last # 0 /\ insts[last].op = "store"
  /\ last \in m_removedInsts /\ InBody(Cur, last)
  /\ \E m \in m_removedInsts :
       /\ insts[m].op = "load" /\ insts[last].ops[1] = Inst(m)
       /\ IsResolved(Cur, Inst(m))
       /\ \E p \in 1..Len(body) :
            /\ insts[body[p]].op = "store"
            /\ insts[body[p]].ops[1] = Entry(Cur, Inst(m)).scalarValues[W]

\* the elementwise operators: binary operators, compares and casts
ElementwiseOps == BinaryOps \cup CmpOps \cup CastOps

\* C32: once a vector binary operator, compare or cast has been decomposed,
\* every lane of its SCM entry is an instruction of its opcode that carries
\* exactly its arithmetic flags: no-signed-wrap, no-unsigned-wrap, exact and
\* the fast-math flags, those of a floating-point compare included.
C32_FlagsCopied ==
  (/\ last # 0 /\ insts[last].op \in ElementwiseOps /\ insts[last].w > 0
   /\ last \in m_removedInsts) =>
    \A i \in 1..insts[last].w :
      LET x == Entry(Cur, Inst(last)).scalarValues[i]
      IN /\ IsInst(x) /\ insts[x[2]].op = insts[last].op
         /\ insts[x[2]].aux = insts[last].aux

\* the values getSCMEntry may be called for: the vector argument and the
\* instructions of the function
Keys == {Arg(1)} \cup {Inst(n) : n \in 1..Len(insts)}

\* C33: in every state the pass reaches, getSCMEntry(v) gives v an entry.  For
\* a value that has one it changes nothing: the same entry, the same lanes,
\* the same removed flag.  For a value that has none it maps v to an entry no
\* other value is mapped to, whose lane 0 is null and whose removed flag is
\* false, whatever the pooled slot held before, and leaves the entries of the
\* other values as they are.
C33_GetOrCreate ==
  \A v \in Keys :
    LET s == getSCMEntry(Cur, v)
    IN /\ HasEntry(s, v)
       /\ HasEntry(Cur, v) => s = Cur
       /\ ~HasEntry(Cur, v) =>
            /\ Entry(s, v).scalarValues[1] = NULL
            /\ ~Entry(s, v).isOriginalVectorRemoved
            /\ DOMAIN s.scm = DOMAIN m_SCM \cup {v}
            /\ \A u \in DOMAIN m_SCM :
                 s.scm[u] = m_SCM[u] /\ s.scm[u] # s.scm[v] /\ Entry(s, u) = Entry(Cur, u)

\* in a second call, a value has been given the pooled entry that held the
\* lanes of a removed instruction in the first call: it is unresolved and not
\* marked removed, the old lanes still behind lane 0
C33_Witness ==
  /\ runs = 2
  /\ \E v \in DOMAIN m_SCM :
       /\ ~IsResolved(Cur, v) /\ ~Entry(Cur, v).isOriginalVectorRemoved
       /\ Len(Entry(Cur, v).scalarValues) = W /\ Entry(Cur, v).scalarValues[W] # NULL
  /\ \E v \in Keys : ~HasEntry(Cur, v) /\ m_SCMArrayLocation < ESTIMATED_INST_NUM
       /\ m_SCMArrays[Len(m_SCMArrays)][m_SCMArrayLocation + 1].isOriginalVectorRemoved

\* the pooled entries handed out so far in this call
HandedOut == {m_SCM[v] : v \in DOMAIN m_SCM}

\* the pool in a state: at least one block, the next-free index within the
\* block, every value mapped to a slot of its own, and the slots handed out
\* are those of the full blocks and the first m_SCMArrayLocation of the last
C37_Pool ==
  /\ Len(m_SCMArrays) >= 1
  /\ m_SCMArrayLocation \in 0..ESTIMATED_INST_NUM
  /\ \A u, v \in DOMAIN m_SCM : u # v => m_SCM[u] # m_SCM[v]
  /\ HandedOut =
       {<<a, k>> : a \in 1..(Len(m_SCMArrays) - 1), k \in 1..ESTIMATED_INST_NUM}
       \cup {<<Len(m_SCMArrays), k>> : k \in 1..m_SCMArrayLocation}

\* the pool over a step: the reset at the start of runOnFunction leaves the
\* first block alone, with nothing handed out of it; any other step keeps
\* every block and every handle, and appends a block only if it hands out an
\* entry when the last block is full
C37_Step ==
  IF runs' # runs
  THEN /\ m_SCMArrays' = <<m_SCMArrays[1]>>
       /\ m_SCMArrayLocation' = 0 /\ m_SCM' = <<>>
  ELSE /\ Len(m_SCMArrays') >= Len(m_SCMArrays)
       /\ \A v \in DOMAIN m_SCM : v \in DOMAIN m_SCM' /\ m_SCM'[v] = m_SCM[v]
       /\ Len(m_SCMArrays') > Len(m_SCMArrays) <=>
            Cardinality(DOMAIN m_SCM') - Cardinality(DOMAIN m_SCM)
              > ESTIMATED_INST_NUM - m_SCMArrayLocation

\* C37: the pool never hands one entry to two values during a call and never
\* shrinks during a call: the next-free index stays within 0..ESTIMATED_INST_NUM,
\* there is always at least one block, a block is appended exactly when an
\* entry is needed and the last block is full, and only the reset at the
\* start of runOnFunction releases blocks, leaving the first block and the
\* next-free index 0.
C37_EntryPool == []C37_Pool /\ [][C37_Step]_vars

\* in a second call, after the reset, the pool has grown beyond the first
\* block again, and the last block is partly handed out
C37_Witness ==
  /\ runs = 2 /\ Len(m_SCMArrays) > 1
  /\ m_SCMArrayLocation \in 1..(ESTIMATED_INST_NUM - 1)
  /\ Cardinality(DOMAIN m_SCM) > ESTIMATED_INST_NUM

\* the traversal of this call is under way or over, and nothing is erased yet
InCall == pc \in {"traverse", "reassemble", "resolve", "delete"}

\* instruction n of the function as the call found it has been dispatched:
\* the traversal is over, or n lies before the instruction under the iterator
Visited(n) ==
  /\ InCall /\ n \in 1..Len(orig.insts) /\ InBody(orig, n)
  /\ sI = 0 \/ PosOf(Cur, n) < PosOf(Cur, sI)

\* every dispatched vector instruction has an entry, and once the traversal
\* is over so has every DRL target
C34_State ==
  InCall =>
    /\ \A n \in 1..Len(orig.insts) :
         (Visited(n) /\ insts[n].w > 0) => HasEntry(Cur, Inst(n))
    /\ sI = 0 => \A j \in 1..Len(m_DRL) : HasEntry(Cur, m_DRL[j].unresolvedInst)

\* no entry is dropped during a call; a DRL entry made by a dispatch is for an
\* instruction that has no entry and lies after the dispatched one; a step of
\* DRL resolution allocates no entry
C34_Step ==
  /\ runs' = runs => \A v \in DOMAIN m_SCM : v \in DOMAIN m_SCM'
  /\ pc = "traverse" =>
       /\ SubSeq(m_DRL', 1, Len(m_DRL)) = m_DRL
       /\ \A j \in (Len(m_DRL) + 1)..Len(m_DRL') :
            \E t \in {m_DRL'[j].unresolvedInst} :
              /\ IsInst(t) /\ ~HasEntry(Cur, t)
              /\ InBody(Cur, t[2]) /\ ~Visited(t[2])
              /\ PosOf(Cur, sI) < PosOf(Cur, t[2])
  /\ pc = "resolve" =>
       /\ DOMAIN m_SCM' = DOMAIN m_SCM
       /\ Len(m_SCMArrays') = Len(m_SCMArrays)
       /\ m_SCMArrayLocation' = m_SCMArrayLocation

\* C34: every vector-valued instruction that has been dispatched has an SCM
\* entry, resolved or not, until the call ends; so obtainScalarizedValues
\* makes placeholders and a DRL entry only for an instruction the traversal
\* has not reached yet, and when the traversal is over every DRL target has
\* an entry: DRL resolution finds it and takes no entry from the pool.
C34_DispatchedHasEntry == []C34_State /\ [][C34_Step]_vars

\* DRL resolution is about to start on two entries, the target of one
\* decomposed and the target of the other handled as Recovery, its entry empty
C34_Witness ==
  /\ pc = "resolve" /\ index = 1 /\ Len(m_DRL) >= 2
  /\ \E j \in 1..Len(m_DRL) : IsResolved(Cur, m_DRL[j].unresolvedInst)
  /\ \E j \in 1..Len(m_DRL) : ~IsResolved(Cur, m_DRL[j].unresolvedInst)

\* the traversal is over and DRL resolution has not begun: Reassembly is
\* about to start or under way
AtReassembly == InCall /\ sI = 0 /\ index = 1

\* the entry of v is marked removed
MarkedRemoved(v) == HasEntry(Cur, v) /\ Entry(Cur, v).isOriginalVectorRemoved

\* at Reassembly the removed set and the removed marks agree on the vector
\* instructions, and what is marked removed has lanes
C35_State ==
  AtReassembly =>
    /\ \A n \in 1..Len(insts) :
         (InBody(Cur, n) /\ insts[n].w > 0) =>
           /\ n \in m_removedInsts <=> MarkedRemoved(Inst(n))
           /\ n \in m_removedInsts => IsResolved(Cur, Inst(n))
    /\ \A v \in DOMAIN m_SCM :
         MarkedRemoved(v) => IsInst(v) /\ v[2] \in m_removedInsts

\* a step of Reassembly rebuilds the used-whole value it is at exactly when
\* that value is an instruction of the removed set; it then leaves no use of it
C35_Step ==
  pc = "reassemble" =>
    \E v \in {m_usedVectors[usedIt]} :
      IF IsInst(v) /\ v[2] \in m_removedInsts
      THEN /\ Len(insts') = Len(insts) + WidthOf(insts, v)
           /\ \A m \in (Len(insts) + 1)..Len(insts') : insts'[m].op = "insertelement"
           /\ \A m \in 1..Len(insts') : \A k \in 1..Len(insts'[m].ops) : insts'[m].ops[k] # v
      ELSE insts' = insts /\ body' = body

\* C35: when the traversal is over, and until DRL resolution begins, a
\* vector-valued instruction is in the removed set if and only if its SCM
\* entry is marked removed, and every such entry is resolved; so Reassembly
\* rebuilds every used-whole value whose definition the deletion loop will
\* erase, and no value whose definition stays in the function.
C35_RemovedMarks == []C35_State /\ [][C35_Step]_vars

\* Reassembly has gone past a removed instruction, which it has rebuilt, and
\* past a value that has lanes but stays in the function, which it has not
C35_Witness ==
  /\ pc \in {"reassemble", "resolve", "delete"} /\ AtReassembly
  /\ Cardinality(ChainHeads) = 1
  /\ \E j \in 1..(usedIt - 1) :
       IsInst(m_usedVectors[j]) /\ m_usedVectors[j][2] \in m_removedInsts
  /\ \E j \in 1..(usedIt - 1) :
       IsResolved(Cur, m_usedVectors[j]) /\ ~MarkedRemoved(m_usedVectors[j])

\* what the loops after the traversal iterate over is not extended while
\* they run: Reassembly leaves the used-whole set and the DRL as they are, DRL
\* resolution adds no DRL entry (it empties the DRL after its last iteration)
\* and leaves the removed set as it is, and so does the deletion loop
C36_Step ==
  /\ pc = "reassemble" =>
       /\ m_usedVectors' = m_usedVectors /\ m_DRL' = m_DRL
       /\ usedIt' = usedIt + 1
  /\ pc = "resolve" =>
       /\ m_DRL' = m_DRL \/ (index = Len(m_DRL) /\ m_DRL' = <<>>)
       /\ m_removedInsts' = m_removedInsts
       /\ index' = index + 1
  /\ pc = "delete" => m_removedInsts' = m_removedInsts /\ pc' = "done"

\* in every phase the loop that is running has an element to work on: the
\* instruction under the iterator is in the function, the index of the
\* used-whole set and the index of the DRL are within them
C36_InRange ==
  /\ pc = "traverse" => sI # 0 /\ InBody(Cur, sI)
  /\ pc = "reassemble" => usedIt \in 1..Len(m_usedVectors)
  /\ pc = "resolve" => index \in 1..Len(m_DRL)

====
